---- MODULE Spec2Model ----
(***************************************************************************)
(* GymApp: the workout session store, the program store with its blueprint *)
(* backfill, and the row-level spreadsheet sync adapter.                   *)
(*                                                                         *)
(* Identifiers produced by generateId (nanoid) are modelled as the values  *)
(* of a counter: every call returns a value never returned before.         *)
(* A calendar day ('yyyy-MM-dd' string of getToday) is modelled as the     *)
(* index of the day; two date strings are equal iff the indexes are.       *)
(***************************************************************************)
EXTENDS Integers, Sequences, FiniteSets, TLC

VARIABLES
    sessions,          \* workout store: WorkoutSession[]
    currentDayNumber,  \* workout store: selected program day
    today,             \* the calendar day the wall clock is in
    nextId,            \* generateId: next identifier to hand out
    last,              \* the last store call: its name, result, missing target
    reopened,          \* history: uncompleteSession reopened a stored session
    days,              \* program store: ProgramDay[]
    programStorage,    \* durable document "gymapp-program" (state.days)
    reloaded,          \* TRUE right after the persisted program was merged
    opCount,           \* number of store and backup calls made so far
    remoteRows,        \* sheet region A2:B: one <<id, json>> row per line
    push,              \* the pushSession call in flight (its position)
    pushedIds,         \* ids of all sessions whose pushSession completed
    remoteConfig,      \* sheet cells D2:G2: the four serialized config documents
    localStorage,      \* the browser's localStorage: key -> string
    accessToken,       \* google-sheets module: the token held in memory
    now,               \* Date.now(), in milliseconds
    del,               \* CalendarPage.handleDelete in flight (its position)
    pull,              \* the pullAll call in flight, then its return value
    pushing,           \* the pushAll call in flight, then its return value
    gsStatus,          \* SettingsPage: the sync status line
    importStatus,      \* SettingsPage: the import status line (and the file read)
    reloadScheduled,   \* a window.location.reload() timer is pending
    download,          \* the backup file handleExportJson produced last
    exported,          \* history: the stored collections when it was produced
    formatted,         \* the last formatSet call: its set and the text returned
    calls,             \* row operations in flight at the same time, one per slot
    indexedDB,         \* idb-keyval: name -> string
    fallback           \* the last fallbackStorage call, and what was written last

storeVars == <<sessions, currentDayNumber, today, last, reopened>>
programVars == <<days, programStorage, reloaded, opCount>>
syncVars == <<remoteRows, push, pushedIds>>
sheetVars == <<remoteConfig, del, pull, pushing>>
deviceVars == <<localStorage, accessToken, now>>
pageVars == <<gsStatus, importStatus, reloadScheduled, download, exported>>
settingsVars == <<sheetVars, deviceVars, pageVars>>
utilVars == <<formatted, calls, indexedDB, fallback>>
vars == <<sessions, currentDayNumber, today, nextId, last, reopened,
          days, programStorage, reloaded, opCount, remoteRows, push, pushedIds,
          remoteConfig, localStorage, accessToken, now, del, pull, pushing,
          gsStatus, importStatus, reloadScheduled, download, exported,
          formatted, calls, indexedDB, fallback>>

----------------------------------------------------------------------------
\* Bounds of the explored inputs

MaxIds == 3
MaxDate == 2

\* `undefined` completedAt / absent optional number
NoTime == 0
NoValue == 0 - 1

\* the durable "gymapp-program" document: absent (or without a days array), or { state: { days } }
NoDocument == [isArray |-> FALSE, days |-> <<>>]

Document(ds) == [isArray |-> TRUE, days |-> ds]

DayNumbers == {1, 2}
DayLabels == {"PULL"}
SlotIds == {"s1", "s2"}
ExerciseIds == {"e1", "e2"}
SetDatas == { [reps |-> 12, weight |-> 65, multiplier |-> 2] }
\* an identifier generateId never returns: names no session and no set
MissingId == 0

----------------------------------------------------------------------------
\* Strings and JSON

\* null (also the undefined of an absent optional value)
Null == "null"

\* a call that is not in flight
Idle == [pc |-> "idle"]

\* A string is modelled by its form and, for a JSON text, the value it denotes.
\* localStorage.getItem(key) of a key that is not stored: null
NoItem == [form |-> "null"]
\* the string ''
EmptyString == [form |-> "empty"]
\* a non-empty string that JSON.parse rejects
NotJson == [form |-> "text"]
\* JSON.stringify(value)
JSONstringify(value) == [form |-> "compact", value |-> value]
\* JSON.stringify(value, null, 2)
JSONstringifyIndented(value) == [form |-> "indented", value |-> value]
\* JSON.parse(text) returns (TRUE) or throws (FALSE)
Parses(text) == text.form \in {"compact", "indented"}
\* JSON.parse(text), where it returns
JSONparse(text) == text.value
\* if (text): null and '' are falsy
TruthyText(text) == text.form \notin {"null", "empty"}

\* A JSON value carries its type; an object is the sequence of its
\* <<key, value>> properties in insertion order. (Each type has a field of
\* its own name, so that values of two types can be compared.)
Obj(props) == [type |-> "object", props |-> props]
Arr(items) == [type |-> "array", items |-> items]
Str(text) == [type |-> "string", text |-> text]
Num(n) == [type |-> "number", num |-> n]
JsonNull == [type |-> "null"]

\* key in value, for a value of any type
HasProp(value, key) ==
    /\ value.type = "object"
    /\ \E i \in 1..Len(value.props) : value.props[i][1] = key
\* value[key] ?? default   (value?.[key] ?? default where value may be undefined)
PropOr(value, key, default) ==
    IF HasProp(value, key)
    THEN value.props[CHOOSE i \in 1..Len(value.props) : value.props[i][1] = key][2]
    ELSE default

\* the keys of the five persisted stores
STORE_KEYS ==
    <<"gymapp-workouts", "gymapp-exercises", "gymapp-program", "gymapp-metrics",
      "gymapp-timer">>
\* the config stores pushed to the cells D2:G2, in column order
CONFIG_KEYS == <<"gymapp-exercises", "gymapp-program", "gymapp-metrics", "gymapp-timer">>
\* localStorage.getItem('gymapp-workouts')
WorkoutsKey == STORE_KEYS[1]
TOKEN_STORAGE_KEY == "gymapp-gsheets-token"
SPREADSHEET_ID_KEY == "gymapp-gsheets-spreadsheet-id"

StoreKeys == { STORE_KEYS[i] : i \in 1..Len(STORE_KEYS) }
LocalKeys == StoreKeys \cup {TOKEN_STORAGE_KEY, SPREADSHEET_ID_KEY}

\* no import has reported yet
NoStatus == [text |-> "", restored |-> 0, file |-> NoItem]

\* an empty localStorage, and four empty cells
NoItems == [k \in LocalKeys |-> NoItem]
NoCells == [i \in 1..Len(CONFIG_KEYS) |-> EmptyString]

----------------------------------------------------------------------------
\* Sequence helpers (Array.prototype.map / filter / findIndex / indexOf)

\* .filter(e => e.sets.length > 0)
RECURSIVE FilterNonEmpty(_)
FilterNonEmpty(es) ==
    IF es = <<>> THEN <<>>
    ELSE IF Len(Head(es).sets) > 0
         THEN <<Head(es)>> \o FilterNonEmpty(Tail(es))
         ELSE FilterNonEmpty(Tail(es))

\* (variant: splice(findIndex(..), 1), which drops the last set when none matches)
SpliceSetId(sets, setId) ==
    LET hits == { i \in 1..Len(sets) : sets[i].id = setId }
        at == IF hits = {} THEN Len(sets) ELSE CHOOSE i \in hits : \A j \in hits : i <= j
    IN [i \in 1..(Len(sets) - (IF sets = <<>> THEN 0 ELSE 1)) |->
            IF i < at THEN sets[i] ELSE sets[i + 1]]

\* e.sets.filter(set => set.id !== setId)
RECURSIVE FilterSetId(_, _)
FilterSetId(sets, setId) ==
    IF sets = <<>> THEN <<>>
    ELSE IF Head(sets).id # setId
         THEN <<Head(sets)>> \o FilterSetId(Tail(sets), setId)
         ELSE FilterSetId(Tail(sets), setId)

\* s.exercises.findIndex(e => e.slotId === slotId && e.exerciseId === exerciseId),
\* 1-based, 0 when absent (JavaScript: 0-based, -1)
FindExerciseIdx(es, slotId, exerciseId) ==
    LET hits == { i \in 1..Len(es) : es[i].slotId = slotId /\ es[i].exerciseId = exerciseId }
    IN IF hits = {} THEN 0 ELSE CHOOSE i \in hits : \A j \in hits : i <= j

----------------------------------------------------------------------------
\* Workout session store

getToday == today

generateId == nextId

\* op: the call's name; ret: the id of the session getOrCreateSession returned
\* (0 otherwise); miss: which identifier of the call named nothing in the store
NoCall == [op |-> "none", ret |-> 0, miss |-> "none"]

\* (variant: a completed session is not found again)
FindSessionOpen(ss, date, dayNumber) ==
    LET hits == { i \in 1..Len(ss) : ss[i].date = date /\ ss[i].dayNumber = dayNumber
                                      /\ ~ss[i].completed }
    IN IF hits = {} THEN 0 ELSE CHOOSE i \in hits : \A j \in hits : i <= j

\* sessions.find(s => s.date === today && s.dayNumber === dayNumber): index or 0
FindSession(ss, date, dayNumber) ==
    LET hits == { i \in 1..Len(ss) : ss[i].date = date /\ ss[i].dayNumber = dayNumber }
    IN IF hits = {} THEN 0 ELSE CHOOSE i \in hits : \A j \in hits : i <= j

HasSession(sessionId) == \E i \in 1..Len(sessions) : sessions[i].id = sessionId

SessionOf(sessionId) == sessions[CHOOSE i \in 1..Len(sessions) : sessions[i].id = sessionId]

MissSession(sessionId) == IF HasSession(sessionId) THEN "none" ELSE "session"

MissCompleted(sessionId) ==
    IF ~HasSession(sessionId) THEN "session"
    ELSE IF ~SessionOf(sessionId).completed THEN "completed" ELSE "none"

MissSet(sessionId, slotId, setId) ==
    IF ~HasSession(sessionId) THEN "session"
    ELSE LET es == SessionOf(sessionId).exercises IN
         IF \A i \in 1..Len(es) : es[i].slotId # slotId THEN "slot"
         ELSE IF \A i \in 1..Len(es) : es[i].slotId = slotId =>
                     \A j \in 1..Len(es[i].sets) : es[i].sets[j].id # setId
              THEN "set" ELSE "none"

setCurrentDay(dayNumber) ==
    /\ currentDayNumber' = dayNumber
    /\ last' = [NoCall EXCEPT !.op = "setCurrentDay"]
    /\ UNCHANGED <<sessions, today, nextId, reopened, programVars, syncVars, settingsVars, utilVars>>

getOrCreateSession(dayNumber, dayLabel) ==
    LET idx == FindSession(sessions, getToday, dayNumber) IN
    IF idx # 0
    THEN /\ last' = [NoCall EXCEPT !.op = "getOrCreateSession", !.ret = sessions[idx].id]
         /\ UNCHANGED <<sessions, currentDayNumber, today, nextId, reopened, programVars, syncVars, settingsVars, utilVars>>
    ELSE /\ nextId <= MaxIds
         /\ sessions' = Append(sessions,
                [id |-> generateId, date |-> getToday, dayNumber |-> dayNumber,
                 dayLabel |-> dayLabel, exercises |-> <<>>,
                 completed |-> FALSE, completedAt |-> NoTime])
         /\ nextId' = nextId + 1
         /\ last' = [NoCall EXCEPT !.op = "getOrCreateSession", !.ret = generateId]
         /\ UNCHANGED <<currentDayNumber, today, reopened, programVars, syncVars, settingsVars, utilVars>>

\* (variant: every set opens a new SessionExercise entry)
AddSetAlwaysNewEntry(s, slotId, exerciseId, setData, newId) ==
    LET newSet == [id |-> newId, reps |-> setData.reps,
                   weight |-> setData.weight, multiplier |-> setData.multiplier]
    IN [s EXCEPT !.exercises = Append(s.exercises,
              [slotId |-> slotId, exerciseId |-> exerciseId, sets |-> <<newSet>>])]

\* the body of addSet's map callback for the session whose id matches
AddSetToSession(s, slotId, exerciseId, setData, newId) ==
    LET exerciseIdx == FindExerciseIdx(s.exercises, slotId, exerciseId)
        newSet == [id |-> newId, reps |-> setData.reps,
                   weight |-> setData.weight, multiplier |-> setData.multiplier]
    IN IF exerciseIdx >= 1
       THEN [s EXCEPT !.exercises[exerciseIdx].sets = Append(@, newSet)]
       ELSE [s EXCEPT !.exercises = Append(@,
                 [slotId |-> slotId, exerciseId |-> exerciseId, sets |-> <<newSet>>])]

addSet(sessionId, slotId, exerciseId, setData) ==
    LET hit == \E i \in 1..Len(sessions) : sessions[i].id = sessionId IN
    /\ hit => nextId <= MaxIds
    /\ sessions' = [i \in 1..Len(sessions) |->
                      IF sessions[i].id # sessionId THEN sessions[i]
                      ELSE AddSetToSession(sessions[i], slotId, exerciseId, setData, generateId)]
    /\ nextId' = IF hit THEN nextId + 1 ELSE nextId
    /\ last' = [NoCall EXCEPT !.op = "addSet", !.miss = MissSession(sessionId)]
    /\ UNCHANGED <<currentDayNumber, today, reopened, programVars, syncVars, settingsVars, utilVars>>

\* (variant: without the cleanup filter)
RemoveSetKeepEmpty(s, slotId, setId) ==
    [s EXCEPT !.exercises =
        [i \in 1..Len(s.exercises) |->
            IF s.exercises[i].slotId # slotId THEN s.exercises[i]
            ELSE [s.exercises[i] EXCEPT !.sets = FilterSetId(@, setId)]]]

\* the body of removeSet's map callback for the session whose id matches
RemoveSetFromSession(s, slotId, setId) ==
    [s EXCEPT !.exercises = FilterNonEmpty(
        [i \in 1..Len(s.exercises) |->
            IF s.exercises[i].slotId # slotId THEN s.exercises[i]
            ELSE [s.exercises[i] EXCEPT !.sets = FilterSetId(@, setId)]])]

removeSet(sessionId, slotId, setId) ==
    /\ sessions' = [i \in 1..Len(sessions) |->
                      IF sessions[i].id # sessionId THEN sessions[i]
                      ELSE RemoveSetFromSession(sessions[i], slotId, setId)]
    /\ last' = [NoCall EXCEPT !.op = "removeSet", !.miss = MissSet(sessionId, slotId, setId)]
    /\ UNCHANGED <<currentDayNumber, today, nextId, reopened, programVars, syncVars, settingsVars, utilVars>>

\* new Date().toISOString(): the instant, here the day it falls in (never NoTime)
nowISO == today

CompleteOne(s) == [s EXCEPT !.completed = TRUE, !.completedAt = nowISO]

completeSession(sessionId) ==
    /\ sessions' = [i \in 1..Len(sessions) |->
                      IF sessions[i].id = sessionId THEN CompleteOne(sessions[i])
                      ELSE sessions[i]]
    /\ last' = [NoCall EXCEPT !.op = "completeSession", !.miss = MissSession(sessionId)]
    /\ UNCHANGED <<currentDayNumber, today, nextId, reopened, programVars, syncVars, settingsVars, utilVars>>

\* (variant: the flag is cleared, the timestamp is kept)
UncompleteKeepStamp(s) == [s EXCEPT !.completed = FALSE]

UncompleteOne(s) == [s EXCEPT !.completed = FALSE, !.completedAt = NoTime]

uncompleteSession(sessionId) ==
    /\ sessions' = [i \in 1..Len(sessions) |->
                      IF sessions[i].id = sessionId THEN UncompleteOne(sessions[i])
                      ELSE sessions[i]]
    /\ last' = [NoCall EXCEPT !.op = "uncompleteSession", !.miss = MissCompleted(sessionId)]
    /\ reopened' = (reopened \/ MissCompleted(sessionId) = "none")
    /\ UNCHANGED <<currentDayNumber, today, nextId, programVars, syncVars, settingsVars, utilVars>>

clearSessions ==
    /\ sessions' = <<>>
    /\ last' = [NoCall EXCEPT !.op = "clearSessions"]
    /\ reopened' = FALSE
    /\ UNCHANGED <<currentDayNumber, today, nextId, programVars, syncVars, settingsVars, utilVars>>

\* getCompletedDates(): sessions.filter((s) => s.completed).map((s) => s.date)
getCompletedDates(ss) ==
    LET done == SelectSeq(ss, LAMBDA s : s.completed)
    IN [i \in 1..Len(done) |-> done[i].date]

\* midnight passes: getToday() returns the next date from now on
AdvanceDay ==
    /\ today < MaxDate
    /\ today' = today + 1
    /\ last' = NoCall
    /\ UNCHANGED <<sessions, currentDayNumber, nextId, reopened, programVars, syncVars, settingsVars, utilVars>>

\* identifiers a caller may pass: those of the stored sessions (of the stored
\* sets) and one that names nothing
SessionCallIds == { sessions[i].id : i \in 1..Len(sessions) } \cup {MissingId}

SetCallIds ==
    UNION { UNION { { sessions[i].exercises[j].sets[k].id :
                        k \in 1..Len(sessions[i].exercises[j].sets) } :
                    j \in 1..Len(sessions[i].exercises) } :
            i \in 1..Len(sessions) } \cup {MissingId}

NextWorkout ==
    \/ \E d \in DayNumbers : setCurrentDay(d)
    \/ \E d \in DayNumbers, l \in DayLabels : getOrCreateSession(d, l)
    \/ \E sid \in SessionCallIds, sl \in SlotIds, ex \in ExerciseIds, sd \in SetDatas :
           addSet(sid, sl, ex, sd)
    \/ \E sid \in SessionCallIds, sl \in SlotIds, st \in SetCallIds : removeSet(sid, sl, st)
    \/ \E sid \in SessionCallIds : completeSession(sid)
    \/ \E sid \in SessionCallIds : uncompleteSession(sid)
    \/ clearSessions
    \/ AdvanceDay

InitWorkout ==
    /\ sessions = <<>>
    /\ currentDayNumber = 1
    /\ today = 1
    /\ nextId = 1
    /\ last = NoCall
    /\ reopened = FALSE
    /\ days = <<>>
    /\ programStorage = NoDocument
    /\ reloaded = FALSE
    /\ opCount = 0
    /\ remoteRows = <<>>
    /\ push = [pc |-> "idle"]
    /\ pushedIds = {}
    /\ remoteConfig = NoCells
    /\ localStorage = NoItems
    /\ accessToken = Null
    /\ now = 0
    /\ del = Idle
    /\ pull = Idle
    /\ pushing = Idle
    /\ gsStatus = Null
    /\ importStatus = NoStatus
    /\ reloadScheduled = FALSE
    /\ download = NoItem
    /\ exported = NoItems
    /\ formatted = Idle
    /\ calls = <<>>
    /\ indexedDB = NoItems
    /\ fallback = Idle

SpecWorkout == InitWorkout /\ [][NextWorkout]_vars

----------------------------------------------------------------------------
\* Program store and blueprint backfill

\* exerciseId: null

\* JavaScript truthiness of an exerciseId (string | null)
Truthy(exerciseId) == exerciseId # Null /\ exerciseId # ""

DEFAULT_PROGRAM_BLUEPRINT ==
    [d \in 1..7 |->
        CASE d = 1 -> << [muscleGroup |-> "back", exerciseId |-> "seed-back-1"],
                         [muscleGroup |-> "back", exerciseId |-> "seed-back-2"],
                         [muscleGroup |-> "biceps", exerciseId |-> "seed-biceps-1"],
                         [muscleGroup |-> "rear_delts", exerciseId |-> "seed-rear-delts-1"],
                         [muscleGroup |-> "abs", exerciseId |-> "seed-abs-1"] >>
          [] d = 2 -> << [muscleGroup |-> "chest", exerciseId |-> "seed-chest-1"],
                         [muscleGroup |-> "shoulders", exerciseId |-> "seed-shoulders-2"],
                         [muscleGroup |-> "chest", exerciseId |-> "seed-chest-2"],
                         [muscleGroup |-> "shoulders", exerciseId |-> "seed-shoulders-1"],
                         [muscleGroup |-> "triceps", exerciseId |-> "seed-triceps-1"] >>
          [] d = 3 -> << [muscleGroup |-> "legs", exerciseId |-> "seed-legs-1"],
                         [muscleGroup |-> "hamstring", exerciseId |-> "seed-hamstring-1"],
                         [muscleGroup |-> "legs", exerciseId |-> "seed-legs-2"],
                         [muscleGroup |-> "calves", exerciseId |-> "seed-calves-1"] >>
          [] d = 4 -> << >>
          [] d = 5 -> << [muscleGroup |-> "legs", exerciseId |-> "seed-legs-3"],
                         [muscleGroup |-> "back", exerciseId |-> "seed-back-1"],
                         [muscleGroup |-> "back", exerciseId |-> "seed-back-3"],
                         [muscleGroup |-> "biceps", exerciseId |-> "seed-biceps-2"],
                         [muscleGroup |-> "traps", exerciseId |-> "seed-traps-1"],
                         [muscleGroup |-> "abs", exerciseId |-> "seed-abs-1"] >>
          [] d = 6 -> << [muscleGroup |-> "chest", exerciseId |-> "seed-chest-1"],
                         [muscleGroup |-> "shoulders", exerciseId |-> "seed-shoulders-3"],
                         [muscleGroup |-> "chest", exerciseId |-> "seed-chest-3"],
                         [muscleGroup |-> "shoulders", exerciseId |-> "seed-shoulders-1"],
                         [muscleGroup |-> "triceps", exerciseId |-> "seed-triceps-2"] >>
          [] d = 7 -> << [muscleGroup |-> "legs", exerciseId |-> "seed-legs-1"],
                         [muscleGroup |-> "hamstring", exerciseId |-> "seed-hamstring-2"],
                         [muscleGroup |-> "quads", exerciseId |-> "seed-quads-1"],
                         [muscleGroup |-> "calves", exerciseId |-> "seed-calves-1"] >>]

\* DEFAULT_PROGRAM_BLUEPRINT[day.dayNumber] is undefined for a key that is not there
HasBlueprint(dayNumber) == dayNumber \in DOMAIN DEFAULT_PROGRAM_BLUEPRINT

\* (variant: the blueprint wins over an assignment whenever the muscle group matches)
BackfillSlotOverwrite(slot, index, blueprint) ==
    IF index > Len(blueprint) THEN slot
    ELSE IF slot.muscleGroup # blueprint[index].muscleGroup THEN slot
    ELSE [slot EXCEPT !.exerciseId = blueprint[index].exerciseId]

\* (variant: the muscle group of the slot is not compared)
BackfillSlotAnyGroup(slot, index, blueprint) ==
    IF Truthy(slot.exerciseId) THEN slot
    ELSE IF index > Len(blueprint) THEN slot
    ELSE [slot EXCEPT !.exerciseId = blueprint[index].exerciseId]

\* the callback of day.slots.map; index is 1-based here
BackfillSlot(slot, index, blueprint) ==
    IF Truthy(slot.exerciseId) THEN slot
    ELSE IF index > Len(blueprint) THEN slot
    ELSE IF slot.muscleGroup # blueprint[index].muscleGroup THEN slot
    ELSE [slot EXCEPT !.exerciseId = blueprint[index].exerciseId]

\* (variant: the day number is taken modulo the 7-day week)
BackfillDayWeekly(day) ==
    LET blueprint == DEFAULT_PROGRAM_BLUEPRINT[((day.dayNumber - 1) % 7) + 1] IN
    IF Len(blueprint) = 0 THEN day
    ELSE [day EXCEPT !.slots =
             [i \in 1..Len(day.slots) |-> BackfillSlot(day.slots[i], i, blueprint)]]

\* the callback of days.map
BackfillDay(day) ==
    IF ~HasBlueprint(day.dayNumber) THEN day
    ELSE LET blueprint == DEFAULT_PROGRAM_BLUEPRINT[day.dayNumber] IN
         IF Len(blueprint) = 0 THEN day
         ELSE [day EXCEPT !.slots =
                  [i \in 1..Len(day.slots) |-> BackfillSlot(day.slots[i], i, blueprint)]]

backfillDefaultAssignments(ds) == [i \in 1..Len(ds) |-> BackfillDay(ds[i])]

\* number of blueprint entries of the days before dayNumber: generateId is
\* called once per slot, day 1 first
SlotsBefore(dayNumber) ==
    LET RECURSIVE Sum(_)
        Sum(d) == IF d = 0 THEN 0 ELSE Len(DEFAULT_PROGRAM_BLUEPRINT[d]) + Sum(d - 1)
    IN Sum(dayNumber - 1)

DefaultLabel(dayNumber) ==
    CASE dayNumber \in {1, 5} -> "PULL"
      [] dayNumber \in {2, 6} -> "PUSH"
      [] dayNumber \in {3, 7} -> "LEGS"
      [] OTHER -> "REST"

\* createDefaultProgram() when generateId hands out firstId first
createDefaultProgram(firstId) ==
    [d \in 1..7 |->
        [dayNumber |-> d,
         label |-> DefaultLabel(d),
         slots |-> [i \in 1..Len(DEFAULT_PROGRAM_BLUEPRINT[d]) |->
                      [id |-> firstId + SlotsBefore(d) + i - 1,
                       muscleGroup |-> DEFAULT_PROGRAM_BLUEPRINT[d][i].muscleGroup,
                       exerciseId |-> DEFAULT_PROGRAM_BLUEPRINT[d][i].exerciseId]]]]

\* number of generateId calls of createDefaultProgram
DefaultSlotCount == SlotsBefore(8)

\* Bounds and inputs of the program store calls
MaxOps == 3
MaxNewSlots == 1
ProgOpDays == {3, 4}
ProgExerciseIds == {"custom-1"}
ProgMuscleGroups == {"legs"}
ProgLabels == {"UPPER"}

\* zustand persist: every set() writes the whole state to the storage
Persist(ds) ==
    /\ opCount < MaxOps
    /\ days' = ds
    /\ programStorage' = Document(ds)
    /\ reloaded' = FALSE
    /\ opCount' = opCount + 1

MapDay(dayNumber, F(_)) ==
    [i \in 1..Len(days) |-> IF days[i].dayNumber = dayNumber THEN F(days[i]) ELSE days[i]]

assignExercise(dayNumber, slotId, exerciseId) ==
    LET F(d) == [d EXCEPT !.slots = [i \in 1..Len(d.slots) |->
                     IF d.slots[i].id = slotId
                     THEN [d.slots[i] EXCEPT !.exerciseId = exerciseId]
                     ELSE d.slots[i]]]
    IN /\ Persist(MapDay(dayNumber, F))
       /\ UNCHANGED <<nextId, storeVars, syncVars, settingsVars, utilVars>>

unassignExercise(dayNumber, slotId) ==
    LET F(d) == [d EXCEPT !.slots = [i \in 1..Len(d.slots) |->
                     IF d.slots[i].id = slotId
                     THEN [d.slots[i] EXCEPT !.exerciseId = Null]
                     ELSE d.slots[i]]]
    IN /\ Persist(MapDay(dayNumber, F))
       /\ UNCHANGED <<nextId, storeVars, syncVars, settingsVars, utilVars>>

addSlot(dayNumber, muscleGroup) ==
    LET F(d) == [d EXCEPT !.slots = Append(@,
                     [id |-> generateId, muscleGroup |-> muscleGroup, exerciseId |-> Null])]
        hit == \E i \in 1..Len(days) : days[i].dayNumber = dayNumber
    IN /\ Persist(MapDay(dayNumber, F))
       /\ hit => nextId <= DefaultSlotCount + MaxNewSlots
       /\ nextId' = IF hit THEN nextId + 1 ELSE nextId
       /\ UNCHANGED <<storeVars, syncVars, settingsVars, utilVars>>

RECURSIVE FilterSlotId(_, _)
FilterSlotId(slots, slotId) ==
    IF slots = <<>> THEN <<>>
    ELSE IF Head(slots).id # slotId
         THEN <<Head(slots)>> \o FilterSlotId(Tail(slots), slotId)
         ELSE FilterSlotId(Tail(slots), slotId)

removeSlot(dayNumber, slotId) ==
    LET F(d) == [d EXCEPT !.slots = FilterSlotId(@, slotId)]
    IN /\ Persist(MapDay(dayNumber, F))
       /\ UNCHANGED <<nextId, storeVars, syncVars, settingsVars, utilVars>>

updateDayLabel(dayNumber, label) ==
    LET F(d) == [d EXCEPT !.label = label]
    IN /\ Persist(MapDay(dayNumber, F))
       /\ UNCHANGED <<nextId, storeVars, syncVars, settingsVars, utilVars>>

\* d.slots.findIndex(s => s.id === slotId): 1-based, 0 when absent
FindSlotIdx(slots, slotId) ==
    LET hits == { i \in 1..Len(slots) : slots[i].id = slotId }
    IN IF hits = {} THEN 0 ELSE CHOOSE i \in hits : \A j \in hits : i <= j

moveSlot(dayNumber, slotId, direction) ==
    LET F(d) ==
          LET idx == FindSlotIdx(d.slots, slotId)
              newIdx == IF direction = "up" THEN idx - 1 ELSE idx + 1
          IN IF idx = 0 THEN d
             ELSE IF newIdx < 1 \/ newIdx > Len(d.slots) THEN d
             ELSE [d EXCEPT !.slots = [@ EXCEPT ![idx] = d.slots[newIdx],
                                                ![newIdx] = d.slots[idx]]]
    IN /\ Persist(MapDay(dayNumber, F))
       /\ UNCHANGED <<nextId, storeVars, syncVars, settingsVars, utilVars>>

\* page load: persist's merge option runs on the document read back
\* (currentState.days is a fresh default program; its slot ids are opaque and
\* are written here as those of the first load)
persistedDays ==
    IF programStorage.isArray THEN programStorage.days ELSE createDefaultProgram(1)

merge ==
    /\ days' = backfillDefaultAssignments(persistedDays)
    /\ reloaded' = TRUE
    /\ UNCHANGED <<programStorage, opCount, nextId, storeVars, syncVars, settingsVars, utilVars>>

SlotCallIds(dayNumber) ==
    UNION { { days[i].slots[j].id : j \in 1..Len(days[i].slots) } :
            i \in { i \in 1..Len(days) : days[i].dayNumber = dayNumber } } \cup {MissingId}

NextProgram ==
    \/ \E d \in ProgOpDays : \E sl \in SlotCallIds(d), ex \in ProgExerciseIds :
          assignExercise(d, sl, ex)
    \/ \E d \in ProgOpDays : \E sl \in SlotCallIds(d) : unassignExercise(d, sl)
    \/ \E d \in ProgOpDays, mg \in ProgMuscleGroups : addSlot(d, mg)
    \/ \E d \in ProgOpDays : \E sl \in SlotCallIds(d) : removeSlot(d, sl)
    \/ \E d \in ProgOpDays, l \in ProgLabels : updateDayLabel(d, l)
    \/ \E d \in ProgOpDays : \E sl \in SlotCallIds(d), dir \in {"up", "down"} :
          moveSlot(d, sl, dir)
    \/ merge

InitProgram ==
    /\ sessions = <<>>
    /\ currentDayNumber = 1
    /\ today = 1
    /\ nextId = DefaultSlotCount + 1
    /\ last = NoCall
    /\ reopened = FALSE
    /\ days = createDefaultProgram(1)
    /\ programStorage = NoDocument
    /\ reloaded = FALSE
    /\ opCount = 0
    /\ remoteRows = <<>>
    /\ push = [pc |-> "idle"]
    /\ pushedIds = {}
    /\ remoteConfig = NoCells
    /\ localStorage = NoItems
    /\ accessToken = Null
    /\ now = 0
    /\ del = Idle
    /\ pull = Idle
    /\ pushing = Idle
    /\ gsStatus = Null
    /\ importStatus = NoStatus
    /\ reloadScheduled = FALSE
    /\ download = NoItem
    /\ exported = NoItems
    /\ formatted = Idle
    /\ calls = <<>>
    /\ indexedDB = NoItems
    /\ fallback = Idle

SpecProgram == InitProgram /\ [][NextProgram]_vars

----------------------------------------------------------------------------
\* Loading a legacy document: the persisted program of an earlier version,
\* whose slots may lack an assignment, whose days may be user-made

MaxLegacySlots == 5
LegacyGroups == {"legs", "hamstring"}
LegacyExerciseIds == {Null, "custom-1"}
LegacyBlueprintDays == {3, 7}
LegacyOtherDays == {4, 8}
LegacyOtherGroups == {"back"}

LegacySlotSeqs(n, groups, exIds, firstId) ==
    UNION { { [i \in 1..k |-> [id |-> firstId + i - 1,
                               muscleGroup |-> f[i][1],
                               exerciseId |-> f[i][2]]] :
              f \in [1..k -> groups \X exIds] } :
            k \in 0..n }

LegacyDocuments ==
    { Document(<< [dayNumber |-> a, label |-> "LEGS", slots |-> sa],
                  [dayNumber |-> b, label |-> "REST", slots |-> sb] >>) :
        a \in LegacyBlueprintDays,
        sa \in LegacySlotSeqs(MaxLegacySlots, LegacyGroups, LegacyExerciseIds, 101),
        b \in LegacyOtherDays,
        sb \in LegacySlotSeqs(1, LegacyOtherGroups, LegacyExerciseIds, 201) }

InitBackfill ==
    /\ sessions = <<>>
    /\ currentDayNumber = 1
    /\ today = 1
    /\ nextId = DefaultSlotCount + 1
    /\ last = NoCall
    /\ reopened = FALSE
    /\ days = createDefaultProgram(1)
    /\ programStorage \in LegacyDocuments \cup {NoDocument}
    /\ reloaded = FALSE
    /\ opCount = 0
    /\ remoteRows = <<>>
    /\ push = [pc |-> "idle"]
    /\ pushedIds = {}
    /\ remoteConfig = NoCells
    /\ localStorage = NoItems
    /\ accessToken = Null
    /\ now = 0
    /\ del = Idle
    /\ pull = Idle
    /\ pushing = Idle
    /\ gsStatus = Null
    /\ importStatus = NoStatus
    /\ reloadScheduled = FALSE
    /\ download = NoItem
    /\ exported = NoItems
    /\ formatted = Idle
    /\ calls = <<>>
    /\ indexedDB = NoItems
    /\ fallback = Idle

NextBackfill ==
    \/ merge
    \/ \E d \in ProgOpDays, l \in ProgLabels : updateDayLabel(d, l)

SpecBackfill == InitBackfill /\ [][NextBackfill]_vars

----------------------------------------------------------------------------
\* Spreadsheet sync: the session region (columns A-B, one row per session)

\* sheet row of the first session row (row 1 holds the headers)
FirstDataRow == 2
\* last sheet row of the range 'Sheet1!A2:A10000' read by pushSession
LastReadRow == 10000

MaxRows == 2
MaxPushIds == 3

\* the sessions handed to pushSession
PushSessions ==
    { [id |-> i, date |-> 1, dayNumber |-> 1, dayLabel |-> "PULL", exercises |-> <<>>,
       completed |-> c, completedAt |-> IF c THEN 1 ELSE NoTime] :
      i \in 1..MaxPushIds, c \in BOOLEAN }

\* the JSON object of a session: its own properties in order, a property
\* whose value is undefined is left out
SessionJson(s) ==
    Obj(<< <<"id", s.id>>, <<"date", s.date>>, <<"dayNumber", s.dayNumber>>,
           <<"dayLabel", s.dayLabel>>, <<"exercises", s.exercises>>,
           <<"completed", s.completed>> >>
        \o (IF s.completedAt = NoTime THEN <<>> ELSE << <<"completedAt", s.completedAt>> >>))

\* JSON.stringify(session)
Stringify(s) == JSONstringify(SessionJson(s))

\* sheetsGet(.., 'Sheet1!A2:A10000'): column A of the session rows in the range,
\* then (idsRes.values ?? []).map(r => r[0])
ReadIds(rows) ==
    LET n == IF Len(rows) <= LastReadRow - FirstDataRow + 1
             THEN Len(rows) ELSE LastReadRow - FirstDataRow + 1
    IN [i \in 1..n |-> rows[i][1]]

\* existingIds.indexOf(id): 0-based, -1 when absent
IndexOf(ids, id) ==
    LET hits == { i \in 1..Len(ids) : ids[i] = id }
    IN IF hits = {} THEN 0 - 1 ELSE (CHOOSE i \in hits : \A j \in hits : i <= j) - 1

\* (variant: the header row is not counted)
SheetRowOffByOne(rowIndex) == rowIndex + 1

\* const row = rowIndex + 2
SheetRowOf(rowIndex) == rowIndex + FirstDataRow

\* sheetsPut(.., `Sheet1!A${row}:B${row}`, [[a, b]]): the two cells of sheet row
\* `row`; a write to the header row leaves the session region as it is, a
\* write below the last row leaves rows of empty cells in between
PutRow(rows, row, cells) ==
    IF row < FirstDataRow THEN rows
    ELSE [i \in 1..(IF row - 1 > Len(rows) THEN row - 1 ELSE Len(rows)) |->
             IF i = row - FirstDataRow + 1 THEN cells
             ELSE IF i <= Len(rows) THEN rows[i] ELSE <<MissingId, EmptyString>>]

\* sheetsAppend(.., 'Sheet1!A:B', [[a, b]]): a new row after the last one
AppendRow(rows, cells) == Append(rows, cells)

\* pushSession is called: the lookup of the ids is sent
pushSession(session) ==
    /\ push.pc = "idle"
    /\ push' = [pc |-> "reading", session |-> session]
    /\ UNCHANGED <<remoteRows, pushedIds, storeVars, nextId, programVars, settingsVars, utilVars>>

\* the lookup answers: existingIds and rowIndex are computed, the write is sent
pushSessionRead ==
    /\ push.pc = "reading"
    /\ push' = [pc |-> "writing", session |-> push.session,
                rowIndex |-> IndexOf(ReadIds(remoteRows), push.session.id)]
    /\ UNCHANGED <<remoteRows, pushedIds, storeVars, nextId, programVars, settingsVars, utilVars>>

\* the write is applied by the sheet and pushSession resolves
pushSessionWrite ==
    /\ push.pc = "writing"
    /\ LET cells == <<push.session.id, Stringify(push.session)>> IN
       remoteRows' = IF push.rowIndex >= 0
                     THEN PutRow(remoteRows, SheetRowOf(push.rowIndex), cells)
                     ELSE AppendRow(remoteRows, cells)
    /\ pushedIds' = pushedIds \cup {push.session.id}
    /\ push' = Idle
    /\ UNCHANGED <<storeVars, nextId, programVars, settingsVars, utilVars>>

\* remote session regions with unique ids
RemoteRegions ==
    UNION { { [i \in 1..k |-> <<f[i], Stringify(
                  [id |-> f[i], date |-> 1, dayNumber |-> 1, dayLabel |-> "PULL",
                   exercises |-> <<>>, completed |-> FALSE, completedAt |-> NoTime])>>] :
              f \in { g \in [1..k -> 1..MaxPushIds] :
                        \A a, b \in 1..k : g[a] = g[b] => a = b } } :
            k \in 0..MaxRows }

InitSync ==
    /\ sessions = <<>>
    /\ currentDayNumber = 1
    /\ today = 1
    /\ nextId = 1
    /\ last = NoCall
    /\ reopened = FALSE
    /\ days = <<>>
    /\ programStorage = NoDocument
    /\ reloaded = FALSE
    /\ opCount = 0
    /\ remoteRows \in RemoteRegions
    /\ push = Idle
    /\ pushedIds = {}
    /\ remoteConfig = NoCells
    /\ localStorage = NoItems
    /\ accessToken = Null
    /\ now = 0
    /\ del = Idle
    /\ pull = Idle
    /\ pushing = Idle
    /\ gsStatus = Null
    /\ importStatus = NoStatus
    /\ reloadScheduled = FALSE
    /\ download = NoItem
    /\ exported = NoItems
    /\ formatted = Idle
    /\ calls = <<>>
    /\ indexedDB = NoItems
    /\ fallback = Idle

NextSync ==
    \/ \E s \in PushSessions : pushSession(s)
    \/ pushSessionRead
    \/ pushSessionWrite

SpecSync == InitSync /\ [][NextSync]_vars

----------------------------------------------------------------------------
\* The access token and its cache in localStorage

\* the 1 min buffer of loadTokenFromStorage, in milliseconds
ExpiryBuffer == 60000

\* JSON.stringify({ access_token, expires_at })
TokenText(token, expiresAt) ==
    JSONstringify(Obj(<< <<"access_token", token>>, <<"expires_at", expiresAt>> >>))

\* Date.now() > expires_at - 60000 (false for a value without expires_at)
Expired(value, t) ==
    HasProp(value, "expires_at") /\ t > PropOr(value, "expires_at", 0) - ExpiryBuffer

\* loadTokenFromStorage(): the token it returns
loadTokenFromStorage(ls, t) ==
    LET raw == ls[TOKEN_STORAGE_KEY]
    IN IF ~TruthyText(raw) THEN Null
       ELSE IF ~Parses(raw) THEN Null
       ELSE IF Expired(JSONparse(raw), t) THEN Null
       ELSE PropOr(JSONparse(raw), "access_token", Null)

\* loadTokenFromStorage(): the localStorage it leaves (an expired or unreadable
\* cache entry is removed)
StorageAfterLoad(ls, t) ==
    LET raw == ls[TOKEN_STORAGE_KEY]
    IN IF TruthyText(raw) /\ (~Parses(raw) \/ Expired(JSONparse(raw), t))
       THEN [ls EXCEPT ![TOKEN_STORAGE_KEY] = NoItem]
       ELSE ls

\* getToken(): if (!accessToken) accessToken = loadTokenFromStorage(); return accessToken
TokenOf(held, ls, t) == IF held = Null THEN loadTokenFromStorage(ls, t) ELSE held

\* getToken(): the localStorage it leaves
StorageAfterGetToken(held, ls, t) == IF held = Null THEN StorageAfterLoad(ls, t) ELSE ls

----------------------------------------------------------------------------
\* The documents of the persisted stores

\* the serialized document of a config store whose state is at revision rev
ConfigDocument(rev) ==
    JSONstringify(Obj(<< <<"state", Obj(<< <<"rev", rev>> >>)>>, <<"version", 0>> >>))

\* JSON.stringify({ state: { sessions, currentDayNumber }, version: 0 })
WorkoutsText(sessionObjects, dayNumber) ==
    JSONstringify(Obj(<<
        <<"state", Obj(<< <<"sessions", Arr(sessionObjects)>>,
                          <<"currentDayNumber", dayNumber>> >>)>>,
        <<"version", 0>> >>))

\* the document the persist middleware stores under 'gymapp-workouts'
WorkoutsDocument(ss, dayNumber) ==
    WorkoutsText([i \in 1..Len(ss) |-> SessionJson(ss[i])], dayNumber)

----------------------------------------------------------------------------
\* Deleting the sessions of a calendar day (CalendarPage) and their sheet rows

MaxDeleteIds == 4
MaxDeleteRows == 4
DeleteDates == {1, 2}

\* a spreadsheet id typed into the settings page
SomeSpreadsheetId == NotJson

\* [...sessionIds].reverse()
Reverse(seq) == [i \in 1..Len(seq) |-> seq[Len(seq) + 1 - i]]

\* deleteDimension { dimension: 'ROWS', startIndex, endIndex }: grid row 0 is
\* the header row and grid row i holds session row i; the rows below the
\* removed ones move up, and the first row left is the header row
DeleteDimension(rows, startIndex, endIndex) ==
    LET kept == SelectSeq([i \in 1..(Len(rows) + 1) |-> i - 1],
                          LAMBDA g : ~(startIndex <= g /\ g < endIndex))
    IN IF Len(kept) <= 1 THEN <<>>
       ELSE [i \in 1..(Len(kept) - 1) |-> rows[kept[i + 1]]]

\* ... and the cells D2:G2 after it: they are part of grid row 1, and the row
\* that moves up into its place has no config cells
DeleteDimensionConfig(cells, startIndex, endIndex) ==
    IF startIndex < endIndex /\ startIndex <= 1 THEN NoCells ELSE cells

\* (variant: the header row is not counted)
GridRowIsRowIndex(rowIndex) == rowIndex

\* startIndex: rowIndex + 1  (+1 for the header row, 0-based)
GridRowOf(rowIndex) == rowIndex + 1

\* selectedSessions.map((s) => s.id)
SelectedIds(ss, selectedDate) ==
    LET sel == SelectSeq(ss, LAMBDA s : s.date = selectedDate)
    IN [i \in 1..Len(sel) |-> sel[i].id]

\* deleteSessions(ids): the sessions whose id is not among ids
deleteSessions(ss, ids) ==
    SelectSeq(ss, LAMBDA s : \A i \in 1..Len(ids) : ids[i] # s.id)

\* (variant: a call that throws ends the loop)
NextInBatchStopOnFailure(d, failed) ==
    [pc |-> IF Len(d.ids) > 1 /\ ~failed THEN "lookup" ELSE "local",
     ids |-> IF failed THEN <<>> ELSE Tail(d.ids),
     token |-> d.token, spreadsheetId |-> d.spreadsheetId,
     rowIndex |-> 0 - 1, sessionIds |-> d.sessionIds, before |-> d.before,
     failed |-> d.failed \/ failed,
     failedIds |-> IF failed THEN d.failedIds \cup {Head(d.ids)} ELSE d.failedIds]

\* the loop of handleDelete moves on to the next id, or leaves the loop
\* (try { await deleteSessionFromSheet } catch { continue })
NextInBatch(d, failed) ==
    [pc |-> IF Len(d.ids) > 1 THEN "lookup" ELSE "local", ids |-> Tail(d.ids),
     token |-> d.token, spreadsheetId |-> d.spreadsheetId,
     rowIndex |-> 0 - 1, sessionIds |-> d.sessionIds, before |-> d.before,
     failed |-> d.failed \/ failed,
     failedIds |-> IF failed THEN d.failedIds \cup {Head(d.ids)} ELSE d.failedIds]

\* handleDelete(): the ids of the selected day are collected, the token is
\* fetched, and the first deleteSessionFromSheet call sends its lookup
handleDelete(selectedDate) ==
    /\ del.pc \in {"idle", "done"}
    /\ LET sessionIds == SelectedIds(sessions, selectedDate)
           token == TokenOf(accessToken, localStorage, now)
           spreadsheetId == localStorage[SPREADSHEET_ID_KEY]
       IN /\ Len(sessionIds) > 0
          /\ accessToken' = token
          /\ localStorage' = StorageAfterGetToken(accessToken, localStorage, now)
          /\ del' = [pc |-> IF token # Null /\ TruthyText(spreadsheetId)
                            THEN "lookup" ELSE "local",
                     token |-> token, spreadsheetId |-> spreadsheetId,
                     ids |-> Reverse(sessionIds), rowIndex |-> 0 - 1,
                     sessionIds |-> sessionIds,
                     before |-> remoteRows, failed |-> FALSE, failedIds |-> {}]
    /\ UNCHANGED <<utilVars, storeVars, nextId, programVars, syncVars,
                   remoteConfig, pull, pushing, now, pageVars>>

\* deleteSessionFromSheet: the lookup of the ids answers (or fails, and the
\* call returns); an id that is not in the sheet ends the call
deleteSessionFromSheetRead ==
    /\ del.pc = "lookup"
    /\ \E ok \in BOOLEAN :
         LET rowIndex == IndexOf(ReadIds(remoteRows), Head(del.ids))
         IN del' = IF ok /\ rowIndex >= 0
                   THEN [del EXCEPT !.pc = "deleting", !.rowIndex = rowIndex]
                   ELSE NextInBatch(del, ~ok)
    /\ UNCHANGED <<utilVars, storeVars, nextId, programVars, syncVars,
                   remoteConfig, pull, pushing, deviceVars, pageVars>>

\* deleteSessionFromSheet: the sheet id is fetched and the batchUpdate removes
\* the row (or one of the two requests fails: the call throws, and handleDelete
\* goes on with the next id)
deleteSessionFromSheetDelete ==
    /\ del.pc = "deleting"
    /\ \E ok \in BOOLEAN :
         LET startIndex == GridRowOf(del.rowIndex)
             endIndex == GridRowOf(del.rowIndex) + 1
         IN /\ remoteRows' = IF ok THEN DeleteDimension(remoteRows, startIndex, endIndex)
                             ELSE remoteRows
            /\ remoteConfig' = IF ok THEN DeleteDimensionConfig(remoteConfig, startIndex, endIndex)
                               ELSE remoteConfig
            /\ del' = NextInBatch(del, ~ok)
    /\ UNCHANGED <<utilVars, storeVars, nextId, programVars, push, pushedIds, pull,
                   pushing, deviceVars, pageVars>>

\* handleDelete(): after the loop the sessions are deleted from the local store
handleDeleteLocal ==
    /\ del.pc = "local"
    /\ sessions' = deleteSessions(sessions, del.sessionIds)
    /\ localStorage' = [localStorage EXCEPT
                           ![WorkoutsKey] = WorkoutsDocument(sessions', currentDayNumber)]
    /\ del' = [del EXCEPT !.pc = "done"]
    /\ UNCHANGED <<utilVars, currentDayNumber, today, last, reopened, nextId,
                   programVars, syncVars, remoteConfig, pull, pushing, accessToken, now, pageVars>>

\* the sessions of the local store: one per id, each on one of the days
DeleteSessionLists ==
    { [i \in 1..MaxDeleteIds |->
         [id |-> i, date |-> f[i], dayNumber |-> 1, dayLabel |-> "PULL",
          exercises |-> <<>>, completed |-> FALSE, completedAt |-> NoTime]] :
      f \in [1..MaxDeleteIds -> DeleteDates] }

\* remote session regions with unique ids, in any row order
DeleteRegions ==
    UNION { { [i \in 1..k |-> <<f[i], Stringify(
                  [id |-> f[i], date |-> 1, dayNumber |-> 1, dayLabel |-> "PULL",
                   exercises |-> <<>>, completed |-> FALSE, completedAt |-> NoTime])>>] :
              f \in { g \in [1..k -> 1..MaxDeleteIds] :
                        \A a, b \in 1..k : g[a] = g[b] => a = b } } :
            k \in 0..MaxDeleteRows }

\* config cells holding a document each
SomeCells == [i \in 1..Len(CONFIG_KEYS) |-> ConfigDocument(1)]

InitDelete ==
    /\ sessions \in DeleteSessionLists
    /\ currentDayNumber = 1
    /\ today = 1
    /\ nextId = MaxDeleteIds + 1
    /\ last = NoCall
    /\ reopened = FALSE
    /\ days = <<>>
    /\ programStorage = NoDocument
    /\ reloaded = FALSE
    /\ opCount = 0
    /\ remoteRows \in DeleteRegions
    /\ push = Idle
    /\ pushedIds = {}
    /\ remoteConfig = SomeCells
    /\ accessToken \in {Null, "token"}
    /\ localStorage = [NoItems EXCEPT ![SPREADSHEET_ID_KEY] = SomeSpreadsheetId,
                                      ![WorkoutsKey] = WorkoutsDocument(sessions, 1)]
    /\ now = 0
    /\ del = Idle
    /\ pull = Idle
    /\ pushing = Idle
    /\ gsStatus = Null
    /\ importStatus = NoStatus
    /\ reloadScheduled = FALSE
    /\ download = NoItem
    /\ exported = NoItems
    /\ formatted = Idle
    /\ calls = <<>>
    /\ indexedDB = NoItems
    /\ fallback = Idle

NextDelete ==
    \/ \E d \in DeleteDates : handleDelete(d)
    \/ deleteSessionFromSheetRead
    \/ deleteSessionFromSheetDelete
    \/ handleDeleteLocal

SpecDelete == InitDelete /\ [][NextDelete]_vars

\* every request of a batch is answered (with a result or an error), and the
\* code after the loop runs
SpecDeleteFair ==
    SpecDelete /\ WF_vars(deleteSessionFromSheetRead)
               /\ WF_vars(deleteSessionFromSheetDelete)
               /\ WF_vars(handleDeleteLocal)

----------------------------------------------------------------------------
\* pullAll: the sheet is copied into localStorage (SettingsPage.handleGsPull)

MaxPullRows == 2
MaxPullIds == 2

\* the status lines of the sync section
NotConnected == "Not connected. Click Connect first."
NoDataFound == "No data found in sheet."

\* sheetsGet(.., 'Sheet1!A2:B10000'): the session rows in the range
ReadRows(rows) ==
    SubSeq(rows, 1, IF Len(rows) <= LastReadRow - FirstDataRow + 1
                    THEN Len(rows) ELSE LastReadRow - FirstDataRow + 1)

\* (variant: a row that does not parse ends the loop)
ParsedUntilBadRow(rows) ==
    LET bad == { i \in 1..Len(rows) : ~(TruthyText(rows[i][2]) /\ Parses(rows[i][2])) }
        n == IF bad = {} THEN Len(rows) ELSE (CHOOSE i \in bad : \A j \in bad : i <= j) - 1
    IN [i \in 1..n |-> JSONparse(rows[i][2])]

\* for (const row of rows) if (row[1]) try { sessions.push(JSON.parse(row[1])) } catch {}
ParsedSessions(rows) ==
    LET good == SelectSeq(rows, LAMBDA row : TruthyText(row[2]) /\ Parses(row[2]))
    IN [i \in 1..Len(good) |-> JSONparse(good[i][2])]

\* (variant: the pulled document starts again at day 1)
LocalDayNumberReset(local) == 1

\* let currentDayNumber = 1;
\* try { if (local) currentDayNumber = JSON.parse(local).state?.currentDayNumber ?? 1 } catch {}
LocalDayNumber(local) ==
    IF ~TruthyText(local) THEN 1
    ELSE IF ~Parses(local) THEN 1
    ELSE PropOr(PropOr(JSONparse(local), "state", JsonNull), "currentDayNumber", 1)

\* (variant: every cell of the row is written)
ConfigCellsAll(cells) == 1..Len(CONFIG_KEYS)

\* CONFIG_KEYS.forEach((key, i) => { if (configRow[i]) ... }): the cells written
ConfigCellsRead(cells) == { i \in 1..Len(CONFIG_KEYS) : TruthyText(cells[i]) }

\* gsLoading: a push or pull started from the settings page is in flight (its
\* buttons are disabled)
gsLoading == pull.pc \in {"config", "sessions"} \/ pushing.pc \notin {"idle", "done"}

\* handleGsPull: the token is fetched; without one the handler reports it and
\* returns, with one pullAll is called and sends the read of D2:G2
handleGsPull ==
    /\ ~gsLoading
    /\ LET token == TokenOf(accessToken, localStorage, now)
       IN /\ accessToken' = token
          /\ localStorage' = StorageAfterGetToken(accessToken, localStorage, now)
          /\ IF token = Null
             THEN gsStatus' = NotConnected /\ pull' = pull
             ELSE /\ gsStatus' = "Pulling data..."
                  /\ pull' = [pc |-> "config", sessions |-> 0, config |-> 0,
                              configRead |-> FALSE, sessionsRead |-> FALSE]
    /\ UNCHANGED <<utilVars, storeVars, nextId, programVars, syncVars,
                   remoteConfig, del, pushing, now, importStatus, reloadScheduled, download, exported>>

\* pullAll: the read of D2:G2 answers (or fails); every non-empty cell is
\* stored under its key; the read of the session rows is sent
pullAllConfig ==
    /\ pull.pc = "config"
    /\ \E ok \in BOOLEAN :
         LET written == IF ok THEN ConfigCellsRead(remoteConfig) ELSE {}
         IN /\ localStorage' =
                 [k \in LocalKeys |->
                    IF \E i \in written : CONFIG_KEYS[i] = k
                    THEN remoteConfig[CHOOSE i \in written : CONFIG_KEYS[i] = k]
                    ELSE localStorage[k]]
            /\ pull' = [pull EXCEPT !.pc = "sessions", !.config = Cardinality(written),
                                    !.configRead = ok]
    /\ UNCHANGED <<utilVars, storeVars, nextId, programVars, syncVars,
                   remoteConfig, del, pushing, accessToken, now, pageVars>>

\* pullAll: the read of A2:B10000 answers (or fails); the rows that parse
\* replace the sessions of the local document when there is at least one;
\* pullAll returns its counts and handleGsPull reports them
pullAllSessions ==
    /\ pull.pc = "sessions"
    /\ \E ok \in BOOLEAN :
         LET parsed == IF ok THEN ParsedSessions(ReadRows(remoteRows)) ELSE <<>>
             local == localStorage[WorkoutsKey]
         IN /\ localStorage' =
                 IF Len(parsed) > 0
                 THEN [localStorage EXCEPT
                         ![WorkoutsKey] = WorkoutsText(parsed, LocalDayNumber(local))]
                 ELSE localStorage
            /\ pull' = [pull EXCEPT !.pc = "done", !.sessions = Len(parsed),
                                    !.sessionsRead = ok]
            /\ IF Len(parsed) = 0 /\ pull.config = 0
               THEN gsStatus' = NoDataFound /\ UNCHANGED reloadScheduled
               ELSE gsStatus' = "Pulled. Reloading..." /\ reloadScheduled' = TRUE
    /\ UNCHANGED <<utilVars, storeVars, nextId, programVars, syncVars,
                   remoteConfig, del, pushing, accessToken, now, importStatus, download, exported>>

\* the payload cells of a remote session row
PullPayloads(id) ==
    { Stringify([id |-> id, date |-> 1, dayNumber |-> 1, dayLabel |-> "PULL",
                 exercises |-> <<>>, completed |-> FALSE, completedAt |-> NoTime]),
      EmptyString, NotJson }

\* remote session regions: unique ids, payloads that parse or do not
PullRegions ==
    UNION { UNION { { [i \in 1..k |-> <<f[i], p[i]>>] :
                      p \in { q \in [1..k -> UNION { PullPayloads(id) : id \in 1..MaxPullIds }] :
                                \A i \in 1..k : q[i] \in PullPayloads(f[i]) } } :
                    f \in { g \in [1..k -> 1..MaxPullIds] :
                              \A a, b \in 1..k : g[a] = g[b] => a = b } } :
            k \in 0..MaxPullRows }

\* the cells D2:G2: empty, a document, or text that is not JSON
PullCells == [1..Len(CONFIG_KEYS) -> {EmptyString, ConfigDocument(2), NotJson}]

\* the local workouts document: none, unreadable, or persisted by the store
PullWorkouts ==
    {NoItem, NotJson}
    \cup { WorkoutsText(<<SessionJson([id |-> MaxPullIds + 1, date |-> 1, dayNumber |-> d,
                            dayLabel |-> "PULL", exercises |-> <<>>, completed |-> FALSE,
                            completedAt |-> NoTime])>>, d) : d \in DayNumbers }

InitPull ==
    /\ sessions = <<>>
    /\ currentDayNumber = 1
    /\ today = 1
    /\ nextId = 1
    /\ last = NoCall
    /\ reopened = FALSE
    /\ days = <<>>
    /\ programStorage = NoDocument
    /\ reloaded = FALSE
    /\ opCount = 0
    /\ remoteRows \in PullRegions
    /\ push = Idle
    /\ pushedIds = {}
    /\ remoteConfig \in PullCells
    /\ accessToken \in {Null, "token"}
    /\ \E w \in PullWorkouts, c \in {NoItem, ConfigDocument(1)} :
         localStorage = [k \in LocalKeys |->
                           IF k = WorkoutsKey THEN w
                           ELSE IF k \in StoreKeys THEN c ELSE NoItem]
    /\ now = 0
    /\ del = Idle
    /\ pull = Idle
    /\ pushing = Idle
    /\ gsStatus = Null
    /\ importStatus = NoStatus
    /\ reloadScheduled = FALSE
    /\ download = NoItem
    /\ exported = NoItems
    /\ formatted = Idle
    /\ calls = <<>>
    /\ indexedDB = NoItems
    /\ fallback = Idle

NextPull ==
    \/ handleGsPull
    \/ pullAllConfig
    \/ pullAllSessions

SpecPull == InitPull /\ [][NextPull]_vars

----------------------------------------------------------------------------
\* pushAll: the local stores are copied into the sheet (SettingsPage.handleGsPush)

MaxLocalSessions == 2

\* the session object a parsed JSON object is (a property that is absent is
\* undefined)
SessionOfJson(object) ==
    [id |-> PropOr(object, "id", MissingId), date |-> PropOr(object, "date", 0),
     dayNumber |-> PropOr(object, "dayNumber", 0),
     dayLabel |-> PropOr(object, "dayLabel", ""),
     exercises |-> PropOr(object, "exercises", <<>>),
     completed |-> PropOr(object, "completed", FALSE),
     completedAt |-> PropOr(object, "completedAt", NoTime)]

\* (variant: the cells are taken in the order of STORE_KEYS)
ConfigValuesStoreOrder(ls) ==
    [i \in 1..Len(CONFIG_KEYS) |->
        IF ls[STORE_KEYS[i]] = NoItem THEN EmptyString ELSE ls[STORE_KEYS[i]]]

\* CONFIG_KEYS.map(key => localStorage.getItem(key) ?? '')
ConfigValues(ls) ==
    [i \in 1..Len(CONFIG_KEYS) |->
        IF ls[CONFIG_KEYS[i]] = NoItem THEN EmptyString ELSE ls[CONFIG_KEYS[i]]]

\* JSON.parse(raw).state?.sessions ?? []
LocalSessions(raw) ==
    PropOr(PropOr(JSONparse(raw), "state", JsonNull), "sessions", Arr(<<>>)).items

\* pushAll has returned (or thrown) and handleGsPush reports it
PushDone(p, failed) ==
    [pc |-> "done", rest |-> <<>>, count |-> p.count, failed |-> failed,
     before |-> p.before]

\* handleGsPush: the token is fetched; without one the handler reports it and
\* returns, with one pushAll is called and ensureHeaders sends its writes
handleGsPush ==
    /\ ~gsLoading
    /\ LET token == TokenOf(accessToken, localStorage, now)
       IN /\ accessToken' = token
          /\ localStorage' = StorageAfterGetToken(accessToken, localStorage, now)
          /\ IF token = Null
             THEN gsStatus' = NotConnected /\ pushing' = pushing
             ELSE /\ gsStatus' = "Pushing all data..."
                  /\ pushing' = [pc |-> "headers", rest |-> <<>>, count |-> 0,
                                 failed |-> FALSE, before |-> remoteRows]
    /\ UNCHANGED <<utilVars, storeVars, nextId, programVars, syncVars,
                   remoteConfig, del, pull, now, importStatus, reloadScheduled, download, exported>>

\* ensureHeaders: the header cells A1:B1 and D1:G1 are written (row 1 is
\* outside the session rows and the config cells); pushConfig sends its write
pushAllHeaders ==
    /\ pushing.pc = "headers"
    /\ \E ok \in BOOLEAN :
         /\ pushing' = IF ok THEN [pushing EXCEPT !.pc = "config"]
                       ELSE PushDone(pushing, TRUE)
         /\ gsStatus' = IF ok THEN gsStatus ELSE "Push failed"
    /\ UNCHANGED <<utilVars, storeVars, nextId, programVars, syncVars,
                   remoteConfig, del, pull, deviceVars, importStatus, reloadScheduled, download, exported>>

\* pushConfig: the write of D2:G2 is applied; pushAll reads the local workouts
\* document and calls pushSession for its first session, or returns 0
pushAllConfig ==
    /\ pushing.pc = "config"
    /\ push.pc = "idle"
    /\ \E ok \in BOOLEAN :
         LET raw == localStorage[WorkoutsKey]
             list == IF TruthyText(raw) /\ Parses(raw) THEN LocalSessions(raw) ELSE <<>>
         IN /\ remoteConfig' = IF ok THEN ConfigValues(localStorage) ELSE remoteConfig
            /\ IF ~ok \/ (TruthyText(raw) /\ ~Parses(raw))
               THEN /\ pushing' = PushDone(pushing, TRUE)
                    /\ gsStatus' = "Push failed"
                    /\ push' = push
               ELSE IF list = <<>>
               THEN /\ pushing' = PushDone(pushing, FALSE)
                    /\ gsStatus' = "Pushed"
                    /\ push' = push
               ELSE /\ pushing' = [pushing EXCEPT !.pc = "sessions", !.rest = Tail(list),
                                                  !.count = Len(list)]
                    /\ gsStatus' = gsStatus
                    /\ push' = [pc |-> "reading", session |-> SessionOfJson(Head(list))]
    /\ UNCHANGED <<utilVars, storeVars, nextId, programVars, remoteRows,
                   pushedIds, del, pull, deviceVars, importStatus, reloadScheduled, download, exported>>

\* pushAll: a pushSession call has resolved; the next session is pushed, or
\* pushAll returns sessions.length and handleGsPush reports it
pushAllNext ==
    /\ pushing.pc = "sessions"
    /\ push.pc = "idle"
    /\ IF pushing.rest = <<>>
       THEN /\ pushing' = PushDone(pushing, FALSE)
            /\ gsStatus' = "Pushed"
            /\ push' = push
       ELSE /\ pushing' = [pushing EXCEPT !.rest = Tail(pushing.rest)]
            /\ gsStatus' = gsStatus
            /\ push' = [pc |-> "reading", session |-> SessionOfJson(Head(pushing.rest))]
    /\ UNCHANGED <<utilVars, storeVars, nextId, programVars, remoteRows, pushedIds,
                   remoteConfig, del, pull, deviceVars, importStatus, reloadScheduled,
                   download, exported>>

\* the local workouts document: none, or the sessions the store persisted
PushWorkouts ==
    {NoItem}
    \cup UNION { { WorkoutsText([i \in 1..k |-> SessionJson(
                       [id |-> f[i], date |-> 1, dayNumber |-> 1, dayLabel |-> "PULL",
                        exercises |-> <<>>, completed |-> TRUE, completedAt |-> 1])], 1) :
                   f \in { g \in [1..k -> 1..MaxPushIds] :
                             \A a, b \in 1..k : g[a] = g[b] => a = b } } :
                 k \in 0..MaxLocalSessions }

\* the local config documents: each store has persisted its own, or none yet
PushConfigs ==
    { [k \in LocalKeys |->
         IF \E i \in 1..Len(CONFIG_KEYS) : CONFIG_KEYS[i] = k /\ i \in present
         THEN ConfigDocument(CHOOSE i \in 1..Len(CONFIG_KEYS) : CONFIG_KEYS[i] = k)
         ELSE NoItem] : present \in SUBSET (1..Len(CONFIG_KEYS)) }

InitPush ==
    /\ sessions = <<>>
    /\ currentDayNumber = 1
    /\ today = 1
    /\ nextId = 1
    /\ last = NoCall
    /\ reopened = FALSE
    /\ days = <<>>
    /\ programStorage = NoDocument
    /\ reloaded = FALSE
    /\ opCount = 0
    /\ remoteRows \in RemoteRegions
    /\ push = Idle
    /\ pushedIds = {}
    /\ remoteConfig \in {NoCells, SomeCells}
    /\ accessToken \in {Null, "token"}
    /\ \E w \in PushWorkouts, c \in PushConfigs :
         localStorage = [c EXCEPT ![WorkoutsKey] = w]
    /\ now = 0
    /\ del = Idle
    /\ pull = Idle
    /\ pushing = Idle
    /\ gsStatus = Null
    /\ importStatus = NoStatus
    /\ reloadScheduled = FALSE
    /\ download = NoItem
    /\ exported = NoItems
    /\ formatted = Idle
    /\ calls = <<>>
    /\ indexedDB = NoItems
    /\ fallback = Idle

NextPush ==
    \/ handleGsPush
    \/ pushAllHeaders
    \/ pushAllConfig
    \/ pushAllNext
    \/ pushSessionRead
    \/ pushSessionWrite

SpecPush == InitPush /\ [][NextPush]_vars

----------------------------------------------------------------------------
\* The credential over time: sign-in, sign-out, page loads and the clock

MaxTicks == 4
\* the clock is observed every minute
TickMs == 60000
\* response.expires_in of the token response, in seconds
ExpiresIn == 120

\* signIn(): the token response arrives; the token is held in memory and cached
\* with its expiry
signIn ==
    /\ ~gsLoading
    /\ accessToken' = "token"
    /\ localStorage' = [localStorage EXCEPT
                           ![TOKEN_STORAGE_KEY] = TokenText("token", now + ExpiresIn * 1000)]
    /\ UNCHANGED <<utilVars, storeVars, nextId, programVars, syncVars,
                   sheetVars, now, pageVars>>

\* handleGsDisconnect: signOut() forgets the token and removes the cache entry
signOut ==
    /\ ~gsLoading
    /\ accessToken' = Null
    /\ localStorage' = [localStorage EXCEPT ![TOKEN_STORAGE_KEY] = NoItem]
    /\ gsStatus' = "Disconnected."
    /\ UNCHANGED <<utilVars, storeVars, nextId, programVars, syncVars,
                   sheetVars, now, importStatus, reloadScheduled, download, exported>>

\* the page is loaded again: the module is evaluated
\* (let accessToken = loadTokenFromStorage()) and the page state starts afresh
pageLoad ==
    /\ accessToken' = loadTokenFromStorage(localStorage, now)
    /\ localStorage' = StorageAfterLoad(localStorage, now)
    /\ pull' = Idle
    /\ pushing' = Idle
    /\ push' = Idle
    /\ gsStatus' = Null
    /\ importStatus' = NoStatus
    /\ reloadScheduled' = FALSE
    /\ UNCHANGED <<utilVars, storeVars, nextId, programVars, remoteRows,
                   pushedIds, remoteConfig, del, now, download, exported>>

\* time passes
Tick ==
    /\ now < MaxTicks * TickMs
    /\ now' = now + TickMs
    /\ UNCHANGED <<utilVars, storeVars, nextId, programVars, syncVars,
                   sheetVars, localStorage, accessToken, pageVars>>

InitToken ==
    /\ sessions = <<>>
    /\ currentDayNumber = 1
    /\ today = 1
    /\ nextId = 1
    /\ last = NoCall
    /\ reopened = FALSE
    /\ days = <<>>
    /\ programStorage = NoDocument
    /\ reloaded = FALSE
    /\ opCount = 0
    /\ remoteRows = <<>>
    /\ push = Idle
    /\ pushedIds = {}
    /\ remoteConfig = SomeCells
    /\ accessToken = Null
    /\ localStorage = NoItems
    /\ now = 0
    /\ del = Idle
    /\ pull = Idle
    /\ pushing = Idle
    /\ gsStatus = Null
    /\ importStatus = NoStatus
    /\ reloadScheduled = FALSE
    /\ download = NoItem
    /\ exported = NoItems
    /\ formatted = Idle
    /\ calls = <<>>
    /\ indexedDB = NoItems
    /\ fallback = Idle

NextToken ==
    \/ signIn
    \/ signOut
    \/ pageLoad
    \/ Tick
    \/ handleGsPush
    \/ pushAllHeaders
    \/ pushAllConfig
    \/ handleGsPull
    \/ pullAllConfig
    \/ pullAllSessions

SpecToken == InitToken /\ [][NextToken]_vars

----------------------------------------------------------------------------
\* JSON backup: export and import of the five stores (SettingsPage)

MaxBackupOps == 3

\* the import status lines
FailedToParse == "Failed to parse JSON file."
InvalidFormat == "Invalid backup file format."
NoValidKeys == "No valid store keys found in backup."
Restored == "Restored. Reloading..."

\* handleExportJson: for (const key of STORE_KEYS) { const raw = getItem(key);
\* if (raw) try { backup[key] = JSON.parse(raw) } catch { backup[key] = raw } }
ExportBackup(ls) ==
    LET keys == SelectSeq(STORE_KEYS, LAMBDA k : TruthyText(ls[k]))
    IN Obj([i \in 1..Len(keys) |->
              <<keys[i], IF Parses(ls[keys[i]]) THEN JSONparse(ls[keys[i]])
                         ELSE Str(ls[keys[i]])>>])

\* typeof data === 'object' && data !== null
IsObject(data) == data.type \in {"object", "array"}

\* Object.entries(data): the properties of an object, the indexed items of an array
Entries(data) ==
    IF data.type = "object" THEN data.props
    ELSE [i \in 1..Len(data.items) |-> <<ToString(i - 1), data.items[i]>>]

\* (variant: every key of localStorage is accepted)
ValidKeysAnyLocal == LocalKeys

\* new Set<string>(STORE_KEYS)
ValidKeys == StoreKeys

\* typeof value === 'string' ? value : JSON.stringify(value)
StoredText(value) == IF value.type = "string" THEN value.text ELSE JSONstringify(value)

\* (variant: the reload is scheduled whatever was restored)
ReloadAlways(restored) == TRUE

\* if (restored === 0) { ...; return; } ...; setTimeout(() => window.location.reload(), 1000)
ReloadAfter(restored) == restored # 0

\* handleExportJson: the backup of the stored collections is downloaded
handleExportJson ==
    /\ opCount < MaxBackupOps
    /\ opCount' = opCount + 1
    /\ download' = JSONstringifyIndented(ExportBackup(localStorage))
    /\ exported' = localStorage
    /\ UNCHANGED <<utilVars, storeVars, nextId, days, programStorage, reloaded,
                   syncVars, sheetVars, deviceVars, gsStatus, importStatus, reloadScheduled>>

\* handleImportJson: reader.onload for a file with the given text
handleImportJson(file) ==
    /\ opCount < MaxBackupOps
    /\ opCount' = opCount + 1
    /\ IF ~Parses(file)
       THEN /\ importStatus' = [text |-> FailedToParse, restored |-> 0, file |-> file]
            /\ UNCHANGED <<localStorage, reloadScheduled>>
       ELSE IF ~IsObject(JSONparse(file))
       THEN /\ importStatus' = [text |-> InvalidFormat, restored |-> 0, file |-> file]
            /\ UNCHANGED <<localStorage, reloadScheduled>>
       ELSE LET valid == SelectSeq(Entries(JSONparse(file)), LAMBDA e : e[1] \in ValidKeys)
                restored == Len(valid)
            IN /\ localStorage' =
                    [k \in LocalKeys |->
                       IF \E i \in 1..Len(valid) : valid[i][1] = k
                       THEN StoredText(valid[CHOOSE i \in 1..Len(valid) : valid[i][1] = k][2])
                       ELSE localStorage[k]]
               /\ importStatus' = [text |-> IF restored = 0 THEN NoValidKeys ELSE Restored,
                                   restored |-> restored, file |-> file]
               /\ reloadScheduled' = (reloadScheduled \/ ReloadAfter(restored))
    /\ UNCHANGED <<utilVars, storeVars, nextId, days, programStorage, reloaded,
                   syncVars, sheetVars, accessToken, now, gsStatus, download, exported>>

\* the file chosen for the import is the backup downloaded last
importDownload ==
    /\ download # NoItem
    /\ handleImportJson(download)

\* a store changes its state and the persist middleware stores its document
persistStore(key) ==
    /\ opCount < MaxBackupOps
    /\ opCount' = opCount + 1
    /\ localStorage' = [localStorage EXCEPT ![key] = ConfigDocument(3)]
    /\ UNCHANGED <<utilVars, storeVars, nextId, days, programStorage, reloaded,
                   syncVars, sheetVars, accessToken, now, pageVars>>

\* the values a backup file gives to its keys: a document, text that is not
\* JSON, or a document as a string
FileValues ==
    {JSONparse(ConfigDocument(2)), Str(NotJson), Str(ConfigDocument(2)),
     Str(JSONstringify(Str(NotJson)))}

\* the keys of the backup files: two stores, a key that is not a store, and a
\* key localStorage does not know
FileKeys == <<STORE_KEYS[1], STORE_KEYS[5], TOKEN_STORAGE_KEY, "notes">>

\* the files offered to the import: objects over every subset of FileKeys,
\* and texts that are no backup object
ImportFiles ==
    { JSONstringifyIndented(Obj(
          LET keys == SelectSeq(FileKeys, LAMBDA k : k \in K)
          IN [i \in 1..Len(keys) |-> <<keys[i], v>>])) :
      K \in SUBSET { FileKeys[i] : i \in 1..Len(FileKeys) }, v \in FileValues }
    \cup { NotJson, EmptyString, JSONstringify(JsonNull), JSONstringify(Num(1)),
           JSONstringify(Str(NotJson)),
           JSONstringify(Arr(<<JSONparse(ConfigDocument(2))>>)) }

\* what a store key may hold: nothing, '', its document (as the store wrote
\* it, or indented), or text that is not JSON
StoredKinds ==
    {NoItem, EmptyString, ConfigDocument(1),
     JSONstringifyIndented(JSONparse(ConfigDocument(1))), NotJson}

\* the stored collections: all of a kind, or the first or last of another
BackupStates ==
    { [k \in LocalKeys |->
         IF k \notin StoreKeys THEN NoItem
         ELSE IF k = odd THEN b ELSE a] :
      a \in StoredKinds, b \in StoredKinds, odd \in {STORE_KEYS[1], STORE_KEYS[5]} }

InitBackup ==
    /\ sessions = <<>>
    /\ currentDayNumber = 1
    /\ today = 1
    /\ nextId = 1
    /\ last = NoCall
    /\ reopened = FALSE
    /\ days = <<>>
    /\ programStorage = NoDocument
    /\ reloaded = FALSE
    /\ opCount = 0
    /\ remoteRows = <<>>
    /\ push = Idle
    /\ pushedIds = {}
    /\ remoteConfig = NoCells
    /\ accessToken = Null
    /\ localStorage \in BackupStates
    /\ now = 0
    /\ del = Idle
    /\ pull = Idle
    /\ pushing = Idle
    /\ gsStatus = Null
    /\ importStatus = NoStatus
    /\ reloadScheduled = FALSE
    /\ download = NoItem
    /\ exported = NoItems
    /\ formatted = Idle
    /\ calls = <<>>
    /\ indexedDB = NoItems
    /\ fallback = Idle

NextBackup ==
    \/ handleExportJson
    \/ \E file \in ImportFiles : handleImportJson(file)
    \/ importDownload
    \/ \E key \in {STORE_KEYS[1], STORE_KEYS[5]} : persistStore(key)

SpecBackup == InitBackup /\ [][NextBackup]_vars

----------------------------------------------------------------------------
\* Text export of a set (features/workout/utils/export.ts)

MaxReps == 5
\* the weights and multipliers a logged set may carry (NoValue: the field is
\* absent); AddSetDialog stores parseFloat / parseInt of what was typed
SetWeights == {NoValue, 0, 1, 65, 80}
SetMultipliers == {NoValue, 0, 1, 2, 3}

WorkoutSets ==
    { [reps |-> r, weight |-> w, multiplier |-> m] :
      r \in 1..MaxReps, w \in SetWeights, m \in SetMultipliers }

\* `${n}` / String(n)
NumberText(n) == ToString(n)

\* the truth value of an optional number: undefined and 0 are falsy
TruthyNumber(n) == n # NoValue /\ n # 0

\* formatSet(set)
formatSet(set) ==
    IF TruthyNumber(set.weight) /\ TruthyNumber(set.multiplier) /\ set.multiplier > 1
    THEN NumberText(set.reps) \o " - " \o NumberText(set.multiplier) \o "*"
                              \o NumberText(set.weight)
    ELSE IF TruthyNumber(set.weight)
    THEN NumberText(set.reps) \o " - " \o NumberText(set.weight)
    ELSE NumberText(set.reps)

\* formatSessionText calls formatSet for a set of the session
formatSetCall(set) ==
    /\ formatted' = [pc |-> "done", set |-> set, text |-> formatSet(set)]
    /\ UNCHANGED <<storeVars, nextId, programVars, syncVars, settingsVars, calls,
                   indexedDB, fallback>>

InitExport ==
    /\ sessions = <<>>
    /\ currentDayNumber = 1
    /\ today = 1
    /\ nextId = 1
    /\ last = NoCall
    /\ reopened = FALSE
    /\ days = <<>>
    /\ programStorage = NoDocument
    /\ reloaded = FALSE
    /\ opCount = 0
    /\ remoteRows = <<>>
    /\ push = Idle
    /\ pushedIds = {}
    /\ remoteConfig = NoCells
    /\ accessToken = Null
    /\ localStorage = NoItems
    /\ now = 0
    /\ del = Idle
    /\ pull = Idle
    /\ pushing = Idle
    /\ gsStatus = Null
    /\ importStatus = NoStatus
    /\ reloadScheduled = FALSE
    /\ download = NoItem
    /\ exported = NoItems
    /\ formatted = Idle
    /\ calls = <<>>
    /\ indexedDB = NoItems
    /\ fallback = Idle

NextExport == \E set \in WorkoutSets : formatSetCall(set)

SpecExport == InitExport /\ [][NextExport]_vars

----------------------------------------------------------------------------
\* Row operations in flight at the same time (pushSession called by pushAll
\* and by autoSyncOnComplete, deleteSessionFromSheet called by handleDelete):
\* nothing serializes them, each awaits its own requests

MaxCalls == 2
MaxCallRows == 3
MaxCallIds == 3

\* the sessions pushed: one per id, completed or not
CallSessions ==
    { [id |-> i, date |-> 1, dayNumber |-> 1, dayLabel |-> "PULL", exercises |-> <<>>,
       completed |-> c, completedAt |-> IF c THEN 1 ELSE NoTime] :
      i \in 1..MaxCallIds, c \in BOOLEAN }

\* a slot with no call in it
IdleCall == [op |-> "none", pc |-> "idle"]

\* the id of the row at 0-based position rowIndex of the region, if there is one
IdAtRow(rows, rowIndex) ==
    IF rowIndex >= 0 /\ rowIndex < Len(rows) THEN rows[rowIndex + 1][1] ELSE MissingId

\* try { existingIds = ... } catch { /* empty sheet */ }, then
\* existingIds.indexOf(session.id)
RowIndexRead(rows, id, ok) == IF ok THEN IndexOf(ReadIds(rows), id) ELSE 0 - 1

\* pushSession(spreadsheetId, session, token) is called: the lookup is sent
concurrentPushSession(c, session) ==
    /\ calls[c].pc = "idle"
    /\ calls' = [calls EXCEPT ![c] =
                    [op |-> "pushSession", pc |-> "reading", id |-> session.id,
                     session |-> session, rowIndex |-> 0 - 1, readFailed |-> FALSE,
                     found |-> FALSE, touched |-> MissingId]]
    /\ UNCHANGED <<storeVars, nextId, programVars, syncVars, settingsVars, formatted, indexedDB, fallback>>

\* the lookup answers or fails; rowIndex is computed and the write is sent
concurrentPushRead(c) ==
    /\ calls[c].op = "pushSession" /\ calls[c].pc = "reading"
    /\ \E ok \in BOOLEAN :
         LET rowIndex == RowIndexRead(remoteRows, calls[c].id, ok)
         IN calls' = [calls EXCEPT ![c].pc = "writing",
                                   ![c].rowIndex = rowIndex,
                                   ![c].readFailed = ~ok,
                                   ![c].found = (calls[c].id \in
                                       { remoteRows[i][1] : i \in 1..Len(remoteRows) })]
    /\ UNCHANGED <<storeVars, nextId, programVars, syncVars, settingsVars, formatted, indexedDB, fallback>>

\* the sheetsPut or sheetsAppend is applied by the sheet (or fails: pushSession
\* throws), and pushSession is over
concurrentPushWrite(c) ==
    /\ calls[c].op = "pushSession" /\ calls[c].pc = "writing"
    /\ \E ok \in BOOLEAN :
         LET cells == <<calls[c].id, Stringify(calls[c].session)>>
         IN /\ remoteRows' =
                 IF ~ok THEN remoteRows
                 ELSE IF calls[c].rowIndex >= 0
                 THEN PutRow(remoteRows, SheetRowOf(calls[c].rowIndex), cells)
                 ELSE AppendRow(remoteRows, cells)
            /\ calls' = [calls EXCEPT ![c].pc = "done",
                            ![c].touched = IF ok THEN IdAtRow(remoteRows, calls[c].rowIndex)
                                           ELSE MissingId]
    /\ UNCHANGED <<storeVars, nextId, programVars, push, pushedIds, settingsVars, formatted, indexedDB, fallback>>

\* deleteSessionFromSheet(spreadsheetId, sessionId, token) is called
concurrentDelete(c, sessionId) ==
    /\ calls[c].pc = "idle"
    /\ calls' = [calls EXCEPT ![c] =
                    [op |-> "deleteSessionFromSheet", pc |-> "reading", id |-> sessionId,
                     rowIndex |-> 0 - 1, readFailed |-> FALSE, found |-> FALSE,
                     touched |-> MissingId]]
    /\ UNCHANGED <<storeVars, nextId, programVars, syncVars, settingsVars, formatted, indexedDB, fallback>>

\* the lookup answers (or fails, or the id is not there: the call returns)
concurrentDeleteRead(c) ==
    /\ calls[c].op = "deleteSessionFromSheet" /\ calls[c].pc = "reading"
    /\ \E ok \in BOOLEAN :
         LET rowIndex == RowIndexRead(remoteRows, calls[c].id, ok)
         IN calls' = [calls EXCEPT ![c].pc = IF rowIndex >= 0 THEN "writing" ELSE "done",
                                   ![c].rowIndex = rowIndex,
                                   ![c].readFailed = ~ok,
                                   ![c].found = (rowIndex >= 0)]
    /\ UNCHANGED <<storeVars, nextId, programVars, syncVars, settingsVars, formatted, indexedDB, fallback>>

\* the batchUpdate removes the row at the index computed (or a request fails)
concurrentDeleteWrite(c) ==
    /\ calls[c].op = "deleteSessionFromSheet" /\ calls[c].pc = "writing"
    /\ \E ok \in BOOLEAN :
         LET startIndex == GridRowOf(calls[c].rowIndex)
             endIndex == GridRowOf(calls[c].rowIndex) + 1
         IN /\ remoteRows' = IF ok THEN DeleteDimension(remoteRows, startIndex, endIndex)
                             ELSE remoteRows
            /\ remoteConfig' = IF ok
                               THEN DeleteDimensionConfig(remoteConfig, startIndex, endIndex)
                               ELSE remoteConfig
            /\ calls' = [calls EXCEPT ![c].pc = "done",
                            ![c].touched = IF ok THEN IdAtRow(remoteRows, calls[c].rowIndex)
                                           ELSE MissingId]
    /\ UNCHANGED <<storeVars, nextId, programVars, push, pushedIds, del, pull, pushing,
                   deviceVars, pageVars, formatted,
                   indexedDB, fallback>>

\* remote session regions with unique ids, in any row order
CallRegions ==
    UNION { { [i \in 1..k |-> <<f[i], Stringify(
                  [id |-> f[i], date |-> 1, dayNumber |-> 1, dayLabel |-> "PULL",
                   exercises |-> <<>>, completed |-> FALSE, completedAt |-> NoTime])>>] :
              f \in { g \in [1..k -> 1..MaxCallIds] :
                        \A a, b \in 1..k : g[a] = g[b] => a = b } } :
            k \in 0..MaxCallRows }

InitConcurrent ==
    /\ sessions = <<>>
    /\ currentDayNumber = 1
    /\ today = 1
    /\ nextId = 1
    /\ last = NoCall
    /\ reopened = FALSE
    /\ days = <<>>
    /\ programStorage = NoDocument
    /\ reloaded = FALSE
    /\ opCount = 0
    /\ remoteRows \in CallRegions
    /\ push = Idle
    /\ pushedIds = {}
    /\ remoteConfig = SomeCells
    /\ accessToken = Null
    /\ localStorage = NoItems
    /\ now = 0
    /\ del = Idle
    /\ pull = Idle
    /\ pushing = Idle
    /\ gsStatus = Null
    /\ importStatus = NoStatus
    /\ reloadScheduled = FALSE
    /\ download = NoItem
    /\ exported = NoItems
    /\ formatted = Idle
    /\ calls = [c \in 1..MaxCalls |-> IdleCall]
    /\ indexedDB = NoItems
    /\ fallback = Idle

NextConcurrent ==
    \/ \E c \in 1..MaxCalls, s \in CallSessions : concurrentPushSession(c, s)
    \/ \E c \in 1..MaxCalls : concurrentPushRead(c)
    \/ \E c \in 1..MaxCalls : concurrentPushWrite(c)
    \/ \E c \in 1..MaxCalls, id \in 1..MaxCallIds : concurrentDelete(c, id)
    \/ \E c \in 1..MaxCalls : concurrentDeleteRead(c)
    \/ \E c \in 1..MaxCalls : concurrentDeleteWrite(c)

SpecConcurrent == InitConcurrent /\ [][NextConcurrent]_vars

----------------------------------------------------------------------------
\* The workout store with its persist middleware, a pull, and the page reload
\* that handleGsPull schedules

MaxMutations == 2

\* persist: after every set() the state is written under 'gymapp-workouts'
PersistWorkouts(ls, ss, dayNumber) ==
    [ls EXCEPT ![WorkoutsKey] = WorkoutsDocument(ss, dayNumber)]

\* persist at page load: the stored state replaces the initial one
HydratedSessions(text) ==
    IF TruthyText(text) /\ Parses(text)
    THEN LET list == LocalSessions(text) IN [i \in 1..Len(list) |-> SessionOfJson(list[i])]
    ELSE <<>>

\* setCurrentDay(dayNumber), persisted
storeSetCurrentDay(dayNumber) ==
    /\ opCount < MaxMutations
    /\ opCount' = opCount + 1
    /\ currentDayNumber' = dayNumber
    /\ last' = [NoCall EXCEPT !.op = "setCurrentDay"]
    /\ localStorage' = PersistWorkouts(localStorage, sessions, dayNumber)
    /\ UNCHANGED <<sessions, today, reopened, nextId, days, programStorage, reloaded,
                   syncVars, sheetVars, accessToken, now, pageVars, utilVars>>

\* getOrCreateSession(dayNumber, dayLabel): a session that exists is returned
\* (no set(), nothing is persisted), a new one is appended and persisted
storeGetOrCreateSession(dayNumber, dayLabel) ==
    /\ opCount < MaxMutations
    /\ opCount' = opCount + 1
    /\ LET idx == FindSession(sessions, getToday, dayNumber)
       IN IF idx # 0
          THEN /\ last' = [NoCall EXCEPT !.op = "getOrCreateSession",
                                         !.ret = sessions[idx].id]
               /\ UNCHANGED <<sessions, nextId, localStorage>>
          ELSE /\ sessions' = Append(sessions,
                      [id |-> generateId, date |-> getToday, dayNumber |-> dayNumber,
                       dayLabel |-> dayLabel, exercises |-> <<>>,
                       completed |-> FALSE, completedAt |-> NoTime])
               /\ nextId' = nextId + 1
               /\ last' = [NoCall EXCEPT !.op = "getOrCreateSession", !.ret = generateId]
               /\ localStorage' = PersistWorkouts(localStorage, sessions', currentDayNumber)
    /\ UNCHANGED <<currentDayNumber, today, reopened, days, programStorage, reloaded,
                   syncVars, sheetVars, accessToken, now, pageVars, utilVars>>

\* addSet(sessionId, slotId, exerciseId, setData) for a session of the store
storeAddSet(slotId, exerciseId, setData) ==
    /\ opCount < MaxMutations
    /\ opCount' = opCount + 1
    /\ \E k \in 1..Len(sessions) :
         sessions' = [i \in 1..Len(sessions) |->
                        IF sessions[i].id = sessions[k].id
                        THEN AddSetToSession(sessions[i], slotId, exerciseId, setData,
                                             generateId)
                        ELSE sessions[i]]
    /\ nextId' = nextId + 1
    /\ last' = [NoCall EXCEPT !.op = "addSet"]
    /\ localStorage' = PersistWorkouts(localStorage, sessions', currentDayNumber)
    /\ UNCHANGED <<currentDayNumber, today, reopened, days, programStorage, reloaded,
                   syncVars, sheetVars, accessToken, now, pageVars, utilVars>>

\* removeSet(sessionId, slotId, setId) for a set of the store
storeRemoveSet(slotId) ==
    /\ opCount < MaxMutations
    /\ opCount' = opCount + 1
    /\ \E k \in 1..Len(sessions) :
         \E e \in 1..Len(sessions[k].exercises) :
           \E n \in 1..Len(sessions[k].exercises[e].sets) :
             sessions' = [i \in 1..Len(sessions) |->
                            IF sessions[i].id = sessions[k].id
                            THEN RemoveSetFromSession(sessions[i], slotId,
                                     sessions[k].exercises[e].sets[n].id)
                            ELSE sessions[i]]
    /\ last' = [NoCall EXCEPT !.op = "removeSet"]
    /\ localStorage' = PersistWorkouts(localStorage, sessions', currentDayNumber)
    /\ UNCHANGED <<currentDayNumber, today, reopened, nextId, days, programStorage,
                   reloaded, syncVars, sheetVars, accessToken, now, pageVars, utilVars>>

\* completeSession(sessionId) for a session of the store
storeCompleteSession ==
    /\ opCount < MaxMutations
    /\ opCount' = opCount + 1
    /\ \E k \in 1..Len(sessions) :
         sessions' = [i \in 1..Len(sessions) |->
                        IF sessions[i].id = sessions[k].id THEN CompleteOne(sessions[i])
                        ELSE sessions[i]]
    /\ last' = [NoCall EXCEPT !.op = "completeSession"]
    /\ localStorage' = PersistWorkouts(localStorage, sessions', currentDayNumber)
    /\ UNCHANGED <<currentDayNumber, today, reopened, nextId, days, programStorage,
                   reloaded, syncVars, sheetVars, accessToken, now, pageVars, utilVars>>

\* setTimeout(() => window.location.reload(), 800) fires: the modules are
\* loaded again and the workout store takes its state from localStorage
windowReload ==
    /\ reloadScheduled
    /\ reloadScheduled' = FALSE
    /\ accessToken' = loadTokenFromStorage(localStorage, now)
    /\ localStorage' = StorageAfterLoad(localStorage, now)
    /\ sessions' = HydratedSessions(localStorage[WorkoutsKey])
    /\ currentDayNumber' = LocalDayNumber(localStorage[WorkoutsKey])
    /\ last' = NoCall
    /\ pull' = Idle
    /\ pushing' = Idle
    /\ push' = Idle
    /\ gsStatus' = Null
    /\ importStatus' = NoStatus
    /\ UNCHANGED <<today, reopened, nextId, programVars, remoteRows, pushedIds,
                   remoteConfig, del, now, download, exported, utilVars>>

\* the sessions of the store before the pull: none, or one that is not remote
ReloadStores ==
    { <<>>,
      << [id |-> MaxPullIds + 1, date |-> 1, dayNumber |-> 1, dayLabel |-> "PULL",
          exercises |-> <<>>, completed |-> FALSE, completedAt |-> NoTime] >> }

InitReload ==
    /\ sessions \in ReloadStores
    /\ currentDayNumber = 1
    /\ today = 1
    /\ nextId = MaxPullIds + 2
    /\ last = NoCall
    /\ reopened = FALSE
    /\ days = <<>>
    /\ programStorage = NoDocument
    /\ reloaded = FALSE
    /\ opCount = 0
    /\ remoteRows \in PullRegions
    /\ push = Idle
    /\ pushedIds = {}
    /\ remoteConfig = NoCells
    /\ accessToken = "token"
    /\ localStorage = PersistWorkouts(NoItems, sessions, 1)
    /\ now = 0
    /\ del = Idle
    /\ pull = Idle
    /\ pushing = Idle
    /\ gsStatus = Null
    /\ importStatus = NoStatus
    /\ reloadScheduled = FALSE
    /\ download = NoItem
    /\ exported = NoItems
    /\ formatted = Idle
    /\ calls = <<>>
    /\ indexedDB = NoItems
    /\ fallback = Idle

NextReload ==
    \/ handleGsPull
    \/ pullAllConfig
    \/ pullAllSessions
    \/ \E d \in DayNumbers : storeSetCurrentDay(d)
    \/ \E d \in DayNumbers, l \in DayLabels : storeGetOrCreateSession(d, l)
    \/ \E sl \in SlotIds, ex \in ExerciseIds, sd \in SetDatas : storeAddSet(sl, ex, sd)
    \/ \E sl \in SlotIds : storeRemoveSet(sl)
    \/ storeCompleteSession
    \/ windowReload

SpecReload == InitReload /\ [][NextReload]_vars

----------------------------------------------------------------------------
\* A delete-day action followed by pulls (CalendarPage, then SettingsPage)

MaxStayIds == 2

\* the sessions of the local store: one per id, each on one of the days
StaySessionLists ==
    { [i \in 1..MaxStayIds |->
         [id |-> i, date |-> f[i], dayNumber |-> 1, dayLabel |-> "PULL",
          exercises |-> <<>>, completed |-> FALSE, completedAt |-> NoTime]] :
      f \in [1..MaxStayIds -> DeleteDates] }

\* the remote rows of local sessions, in any row order
StayRegions ==
    UNION { { [i \in 1..k |-> <<f[i], Stringify(
                  [id |-> f[i], date |-> 1, dayNumber |-> 1, dayLabel |-> "PULL",
                   exercises |-> <<>>, completed |-> FALSE, completedAt |-> NoTime])>>] :
              f \in { g \in [1..k -> 1..MaxStayIds] :
                        \A a, b \in 1..k : g[a] = g[b] => a = b } } :
            k \in 0..MaxStayIds }

InitStay ==
    /\ sessions \in StaySessionLists
    /\ currentDayNumber = 1
    /\ today = 1
    /\ nextId = MaxStayIds + 1
    /\ last = NoCall
    /\ reopened = FALSE
    /\ days = <<>>
    /\ programStorage = NoDocument
    /\ reloaded = FALSE
    /\ opCount = 0
    /\ remoteRows \in StayRegions
    /\ push = Idle
    /\ pushedIds = {}
    /\ remoteConfig = NoCells
    /\ accessToken \in {Null, "token"}
    /\ localStorage = [NoItems EXCEPT ![SPREADSHEET_ID_KEY] = SomeSpreadsheetId,
                                      ![WorkoutsKey] = WorkoutsDocument(sessions, 1)]
    /\ now = 0
    /\ del = Idle
    /\ pull = Idle
    /\ pushing = Idle
    /\ gsStatus = Null
    /\ importStatus = NoStatus
    /\ reloadScheduled = FALSE
    /\ download = NoItem
    /\ exported = NoItems
    /\ formatted = Idle
    /\ calls = <<>>
    /\ indexedDB = NoItems
    /\ fallback = Idle

NextStay ==
    \/ \E d \in DeleteDates : handleDelete(d)
    \/ deleteSessionFromSheetRead
    \/ deleteSessionFromSheetDelete
    \/ handleDeleteLocal
    \/ signIn
    \/ handleGsPull
    \/ pullAllConfig
    \/ pullAllSessions
    \/ windowReload

SpecStay == InitStay /\ [][NextStay]_vars

----------------------------------------------------------------------------
\* fallbackStorage: localStorage first, IndexedDB (idb-keyval) when the quota
\* is exceeded

MaxDocRevs == 2

\* the names the persisted stores use with it
FallbackNames == {STORE_KEYS[3], STORE_KEYS[4]}

\* the serialized states it is given
FallbackValues == { ConfigDocument(rev) : rev \in 1..MaxDocRevs }

\* getItem(name): local !== null ? local : (await get(name)) ?? null
GetItemOf(ls, idb, name) ==
    IF ls[name] # NoItem THEN ls[name] ELSE idb[name]

\* getItem(name)
getItem(name) ==
    /\ fallback' = [fallback EXCEPT !.op = "getItem", !.name = name,
                                    !.ret = GetItemOf(localStorage, indexedDB, name)]
    /\ UNCHANGED <<storeVars, nextId, programVars, syncVars, settingsVars,
                   formatted, calls, indexedDB>>

\* setItem(name, value): localStorage.setItem stores the value, or throws
\* QuotaExceededError and the value goes to IndexedDB
setItem(name, value) ==
    /\ \E quotaExceeded \in BOOLEAN :
         IF quotaExceeded
         THEN /\ indexedDB' = [indexedDB EXCEPT ![name] = value]
              /\ UNCHANGED localStorage
         ELSE /\ localStorage' = [localStorage EXCEPT ![name] = value]
              /\ UNCHANGED indexedDB
    /\ fallback' = [fallback EXCEPT !.op = "setItem", !.name = name, !.ret = NoItem,
                                    !.written = [fallback.written EXCEPT ![name] = value]]
    /\ UNCHANGED <<storeVars, nextId, programVars, syncVars, sheetVars, accessToken,
                   now, pageVars, formatted, calls>>

\* removeItem(name): localStorage.removeItem(name); await del(name)
removeItem(name) ==
    /\ localStorage' = [localStorage EXCEPT ![name] = NoItem]
    /\ indexedDB' = [indexedDB EXCEPT ![name] = NoItem]
    /\ fallback' = [fallback EXCEPT !.op = "removeItem", !.name = name, !.ret = NoItem,
                                    !.written = [fallback.written EXCEPT ![name] = NoItem]]
    /\ UNCHANGED <<storeVars, nextId, programVars, syncVars, sheetVars, accessToken,
                   now, pageVars, formatted, calls>>

InitFallback ==
    /\ sessions = <<>>
    /\ currentDayNumber = 1
    /\ today = 1
    /\ nextId = 1
    /\ last = NoCall
    /\ reopened = FALSE
    /\ days = <<>>
    /\ programStorage = NoDocument
    /\ reloaded = FALSE
    /\ opCount = 0
    /\ remoteRows = <<>>
    /\ push = Idle
    /\ pushedIds = {}
    /\ remoteConfig = NoCells
    /\ accessToken = Null
    /\ localStorage = NoItems
    /\ now = 0
    /\ del = Idle
    /\ pull = Idle
    /\ pushing = Idle
    /\ gsStatus = Null
    /\ importStatus = NoStatus
    /\ reloadScheduled = FALSE
    /\ download = NoItem
    /\ exported = NoItems
    /\ formatted = Idle
    /\ calls = <<>>
    /\ indexedDB = NoItems
    /\ fallback = [op |-> "none", name |-> "", ret |-> NoItem, written |-> NoItems]

NextFallback ==
    \/ \E name \in FallbackNames : getItem(name)
    \/ \E name \in FallbackNames, value \in FallbackValues : setItem(name, value)
    \/ \E name \in FallbackNames : removeItem(name)

SpecFallback == InitFallback /\ [][NextFallback]_vars

----------------------------------------------------------------------------
\* Properties of the workout session store (checked under SpecWorkout)

HasIn(ss, sessionId) == \E i \in 1..Len(ss) : ss[i].id = sessionId

ById(ss, sessionId) == ss[CHOOSE i \in 1..Len(ss) : ss[i].id = sessionId]

SetIdsOf(s) ==
    UNION { { s.exercises[j].sets[k].id : k \in 1..Len(s.exercises[j].sets) } :
            j \in 1..Len(s.exercises) }

AllIds(ss) ==
    { ss[i].id : i \in 1..Len(ss) } \cup UNION { SetIdsOf(ss[i]) : i \in 1..Len(ss) }

\* the sets a session holds for a slot, over all its entries
SlotSetIds(s, slotId) ==
    UNION { { s.exercises[j].sets[k].id : k \in 1..Len(s.exercises[j].sets) } :
            j \in { j \in 1..Len(s.exercises) : s.exercises[j].slotId = slotId } }

SlotEntries(s, slotId) == { j \in 1..Len(s.exercises) : s.exercises[j].slotId = slotId }

UniqueDateDay ==
    \A i, j \in 1..Len(sessions) :
        (sessions[i].date = sessions[j].date /\ sessions[i].dayNumber = sessions[j].dayNumber)
            => i = j

GetOrCreateIdempotent ==
    last'.op = "getOrCreateSession" =>
    \A d \in DayNumbers, l \in DayLabels :
        getOrCreateSession(d, l) =>
            LET there == { i \in 1..Len(sessions) :
                             sessions[i].date = today /\ sessions[i].dayNumber = d }
            IN IF there # {}
               THEN /\ sessions' = sessions
                    /\ \A i \in there : last'.ret = sessions[i].id
               ELSE /\ Len(sessions') = Len(sessions) + 1
                    /\ \A i \in 1..Len(sessions) : sessions'[i] = sessions[i]
                    /\ LET n == sessions'[Len(sessions')]
                       IN /\ n.date = today /\ n.dayNumber = d /\ n.dayLabel = l
                          /\ n.exercises = <<>> /\ ~n.completed
                          /\ n.id \notin AllIds(sessions)
                          /\ last'.ret = n.id

\* C1: no two sessions share a (date, dayNumber) pair in any reachable state;
\* getOrCreateSession returns the session of (today, dayNumber) and adds nothing
\* when one exists, and adds exactly one session and returns it when none does,
\* so a second call on the same calendar day returns the first call's id.
C1_OneSessionPerDateDay == [](UniqueDateDay) /\ [][GetOrCreateIdempotent]_vars

\* a second call returned a session that already held a set, on the second
\* calendar day, while a session of the first day is still stored
C1_Witness ==
    /\ last.op = "getOrCreateSession"
    /\ today = 2
    /\ Len(sessions) = 2
    /\ HasIn(sessions, last.ret)
    /\ ById(sessions, last.ret).date = 2
    /\ ById(sessions, last.ret).exercises # <<>>

NoEmptySets ==
    \A i \in 1..Len(sessions) :
        \A j \in 1..Len(sessions[i].exercises) : Len(sessions[i].exercises[j].sets) > 0

RemoveLastSetDeletesEntry ==
    (last'.op = "removeSet" /\ last'.miss = "none") =>
    \A sid \in SessionCallIds, sl \in SlotIds, st \in SetCallIds :
        (/\ HasIn(sessions, sid)
         /\ SlotSetIds(ById(sessions, sid), sl) = {st}
         /\ removeSet(sid, sl, st))
        => SlotEntries(ById(sessions', sid), sl) = {}

\* C2: no stored SessionExercise has an empty sets list; removing the only set
\* a session holds for a slot leaves that session without an entry for the slot.
C2_NoEmptyExerciseEntry == [](NoEmptySets) /\ [][RemoveLastSetDeletesEntry]_vars

\* removeSet removed a set (three ids were handed out: the session, the set
\* that is left and the removed one) and the entry of the other slot remains
C2_Witness ==
    /\ last.op = "removeSet" /\ last.miss = "none"
    /\ nextId = 4
    /\ Len(sessions) = 1
    /\ Len(sessions[1].exercises) = 1
    /\ Len(sessions[1].exercises[1].sets) = 1

CompletedIffStamped ==
    \A i \in 1..Len(sessions) : sessions[i].completed <=> sessions[i].completedAt # NoTime

CompletionSteps ==
    last'.op \in {"completeSession", "uncompleteSession"} =>
    \A sid \in SessionCallIds :
        /\ (completeSession(sid) /\ HasIn(sessions, sid)) =>
               /\ ById(sessions', sid).completed
               /\ ById(sessions', sid).completedAt # NoTime
        /\ (uncompleteSession(sid) /\ HasIn(sessions, sid)) =>
               /\ ~ById(sessions', sid).completed
               /\ ById(sessions', sid).completedAt = NoTime
        /\ (uncompleteSession(sid) /\ HasIn(sessions, sid) /\ ~ById(sessions, sid).completed) =>
               sessions' = sessions

\* C3: completeSession on any stored session (whatever its sets and its previous
\* state) leaves it completed with a completedAt; uncompleteSession leaves it
\* not completed without completedAt, and changes nothing on a session that is
\* not completed; a reopened session is completed again by completeSession.
C3_CompletionReopenable == [](CompletedIffStamped) /\ [][CompletionSteps]_vars

\* the only session ever stored since the last clear, without sets, was
\* completed, reopened and completed again
C3_Witness ==
    /\ last.op = "completeSession" /\ last.miss = "none"
    /\ reopened
    /\ Len(sessions) = 1
    /\ sessions[1].completed
    /\ sessions[1].exercises = <<>>

AddSetEffect(sid, sl, ex, sd) ==
    LET i == CHOOSE k \in 1..Len(sessions) : sessions[k].id = sid
        s == sessions[i]
        t == sessions'[i]
        has == { j \in 1..Len(s.exercises) :
                   s.exercises[j].slotId = sl /\ s.exercises[j].exerciseId = ex }
    IN /\ Len(sessions') = Len(sessions)
       /\ \A k \in 1..Len(sessions) : k # i => sessions'[k] = sessions[k]
       /\ t.id = s.id /\ t.date = s.date /\ t.dayNumber = s.dayNumber
       /\ t.dayLabel = s.dayLabel
       /\ t.completed = s.completed /\ t.completedAt = s.completedAt
       /\ \E nid \in 1..(MaxIds + 1) :
             LET newSet == [id |-> nid, reps |-> sd.reps, weight |-> sd.weight,
                            multiplier |-> sd.multiplier]
             IN /\ nid \notin AllIds(sessions)
                /\ nid >= nextId
                /\ IF has = {}
                   THEN t.exercises = Append(s.exercises,
                            [slotId |-> sl, exerciseId |-> ex, sets |-> <<newSet>>])
                   ELSE /\ Len(t.exercises) = Len(s.exercises)
                        /\ \E j \in has :
                              /\ t.exercises[j] = [slotId |-> sl, exerciseId |-> ex,
                                     sets |-> Append(s.exercises[j].sets, newSet)]
                              /\ \A k \in 1..Len(s.exercises) :
                                     k # j => t.exercises[k] = s.exercises[k]

AddSetFrame ==
    last'.op = "addSet" =>
    \A sid \in SessionCallIds, sl \in SlotIds, ex \in ExerciseIds, sd \in SetDatas :
        (addSet(sid, sl, ex, sd) /\ HasIn(sessions, sid)) => AddSetEffect(sid, sl, ex, sd)

\* C4: addSet on a stored session adds exactly one set with an id not used
\* before: as the only set of a new last entry when the session has no entry for
\* (slotId, exerciseId), else as the last set of that entry; all other sessions,
\* all other entries and the session's own other fields are unchanged.
C4_AddSetFrame == [][AddSetFrame]_vars

\* addSet appended a second set to an existing entry
C4_Witness ==
    /\ last.op = "addSet" /\ last.miss = "none"
    /\ \E i \in 1..Len(sessions) :
          \E j \in 1..Len(sessions[i].exercises) :
              /\ Len(sessions[i].exercises[j].sets) = 2
              /\ sessions[i].exercises[j].sets[2].id = nextId - 1

MissingIdCall ==
    \/ \E sid \in SessionCallIds :
          /\ ~HasIn(sessions, sid)
          /\ \/ completeSession(sid)
             \/ uncompleteSession(sid)
             \/ \E sl \in SlotIds, ex \in ExerciseIds, sd \in SetDatas : addSet(sid, sl, ex, sd)
    \/ \E sid \in SessionCallIds, sl \in SlotIds, st \in SetCallIds :
          /\ \/ ~HasIn(sessions, sid)
             \/ SlotEntries(ById(sessions, sid), sl) = {}
             \/ st \notin SetIdsOf(ById(sessions, sid))
          /\ removeSet(sid, sl, st)

MissingIdNoOp ==
    \/ last'.miss \notin {"session", "slot", "set"}
    \/ UNCHANGED <<sessions, currentDayNumber>>
    \/ ~MissingIdCall

\* C5: addSet, removeSet, completeSession and uncompleteSession with a session
\* id that is not stored, and removeSet with a slot id or a set id that is not in
\* the target session, change neither the sessions nor currentDayNumber.
C5_MissingIdIsNoOp == [][MissingIdNoOp]_vars

\* removeSet was called with a set id that names no set of a session holding sets
C5_Witness ==
    /\ last.op = "removeSet" /\ last.miss = "set"
    /\ \E i \in 1..Len(sessions) : Len(sessions[i].exercises) = 2

----------------------------------------------------------------------------
\* Properties of the backfill (checked under SpecBackfill) and of the program
\* store (checked under SpecProgram)

\* the days the last load read
Loaded == persistedDays

NoBlueprintFor(dayNumber) ==
    \/ dayNumber \notin 1..7
    \/ DEFAULT_PROGRAM_BLUEPRINT[dayNumber] = <<>>

\* C6: backfillDefaultAssignments applied to its own result changes nothing, and
\* a day whose dayNumber has no blueprint entry or an empty one is returned as
\* it was read.
C6_BackfillIdempotent ==
    reloaded =>
        /\ backfillDefaultAssignments(days) = days
        /\ Len(days) = Len(Loaded)
        /\ \A i \in 1..Len(Loaded) :
              NoBlueprintFor(Loaded[i].dayNumber) => days[i] = Loaded[i]

\* a legacy document was loaded: a slot of its blueprint day was filled, and its
\* day 8 holds an unassigned slot
C6_Witness ==
    /\ reloaded
    /\ programStorage.isArray
    /\ days[1] # programStorage.days[1]
    /\ days[2].dayNumber = 8
    /\ Len(days[2].slots) = 1
    /\ days[2].slots[1].exerciseId = Null

\* C7: backfill leaves every slot whose exerciseId is set exactly as it was, and
\* changes no day's dayNumber, label, slot count, slot order, slot id or slot
\* muscleGroup.
C7_BackfillKeepsAssignments ==
    reloaded =>
        /\ Len(days) = Len(Loaded)
        /\ \A i \in 1..Len(Loaded) :
              /\ days[i].dayNumber = Loaded[i].dayNumber
              /\ days[i].label = Loaded[i].label
              /\ Len(days[i].slots) = Len(Loaded[i].slots)
              /\ \A j \in 1..Len(Loaded[i].slots) :
                    /\ days[i].slots[j].id = Loaded[i].slots[j].id
                    /\ days[i].slots[j].muscleGroup = Loaded[i].slots[j].muscleGroup
                    /\ Loaded[i].slots[j].exerciseId # Null =>
                           days[i].slots[j] = Loaded[i].slots[j]

\* loaded: a slot assigned to custom-1 where the blueprint names another exercise
\* of the same muscle group, next to a slot the load filled
C7_Witness ==
    /\ reloaded
    /\ programStorage.isArray
    /\ days[1].dayNumber = 3
    /\ Len(days[1].slots) >= 2
    /\ days[1].slots[1].muscleGroup = "legs"
    /\ days[1].slots[1].exerciseId = "custom-1"
    /\ programStorage.days[1].slots[2].exerciseId = Null
    /\ days[1].slots[2].exerciseId = "seed-hamstring-1"

\* C8: in a day with a non-empty blueprint, a slot at index i read with
\* exerciseId = null gets the blueprint's exerciseId at i when the blueprint has
\* an entry at i with the slot's muscleGroup, and stays null otherwise.
C8_BackfillFillsMatching ==
    reloaded =>
        \A i \in 1..Len(Loaded) :
            ~NoBlueprintFor(Loaded[i].dayNumber) =>
                LET bp == DEFAULT_PROGRAM_BLUEPRINT[Loaded[i].dayNumber] IN
                \A j \in 1..Len(Loaded[i].slots) :
                    Loaded[i].slots[j].exerciseId = Null =>
                        IF j <= Len(bp) /\ bp[j].muscleGroup = Loaded[i].slots[j].muscleGroup
                        THEN days[i].slots[j].exerciseId = bp[j].exerciseId
                        ELSE days[i].slots[j].exerciseId = Null

\* loaded day 7 with five unassigned slots: the first is filled, the third
\* (legs where the blueprint has quads) and the fifth (past the blueprint's end)
\* stay unassigned
C8_Witness ==
    /\ reloaded
    /\ programStorage.isArray
    /\ days[1].dayNumber = 7
    /\ Len(days[1].slots) = 5
    /\ \A j \in 1..5 : programStorage.days[1].slots[j].exerciseId = Null
    /\ days[1].slots[1].exerciseId = "seed-legs-1"
    /\ days[1].slots[3].muscleGroup = "legs"
    /\ days[1].slots[3].exerciseId = Null
    /\ days[1].slots[5].exerciseId = Null

\* C9: after a reload the program is exactly the persisted days; a slot the user
\* unassigned is still unassigned.
C9_ReloadKeepsUserEdits ==
    (reloaded /\ programStorage.isArray) => days = programStorage.days

----------------------------------------------------------------------------
\* Properties of the session upsert (checked under SpecSync)

RowIds(rows) == { rows[i][1] : i \in 1..Len(rows) }

RowsOf(rows, id) == { i \in 1..Len(rows) : rows[i][1] = id }

OneRowPerId ==
    /\ \A i, j \in 1..Len(remoteRows) : remoteRows[i][1] = remoteRows[j][1] => i = j
    /\ \A id \in pushedIds : Cardinality(RowsOf(remoteRows, id)) = 1

UpsertStep ==
    (push.pc = "writing" /\ push'.pc = "idle") =>
        LET id == push.session.id
            cells == <<id, Stringify(push.session)>>
            at == RowsOf(remoteRows, id)
        IN IF at # {}
           THEN /\ Len(remoteRows') = Len(remoteRows)
                /\ \A r \in 1..Len(remoteRows) :
                      remoteRows'[r] = IF r \in at THEN cells ELSE remoteRows[r]
           ELSE remoteRows' = Append(remoteRows, cells)

\* C10: with pushSession calls run one at a time on a region with unique ids,
\* the region keeps unique ids and holds exactly one row for every id pushed; a
\* push of an id present at row r rewrites that row to (id, JSON of the session)
\* and nothing else; a push of an absent id appends exactly one row.
C10_PushSessionUpserts == [](OneRowPerId) /\ [][UpsertStep]_vars

\* two ids were pushed onto a region of two rows: one push rewrote the first
\* row (its payload is now a completed session), the other appended a third row
C10_Witness ==
    /\ push.pc = "idle"
    /\ Cardinality(pushedIds) = 2
    /\ Len(remoteRows) = 3
    /\ remoteRows[1][1] \in pushedIds
    /\ remoteRows[1][2] = Stringify(
           [id |-> remoteRows[1][1], date |-> 1, dayNumber |-> 1, dayLabel |-> "PULL",
            exercises |-> <<>>, completed |-> TRUE, completedAt |-> 1])

----------------------------------------------------------------------------
\* Properties of the delete-day path (checked under SpecDelete)

SeqToSet(seq) == { seq[i] : i \in 1..Len(seq) }

\* the remote part of handleDelete ran for the whole batch, every request
\* succeeded, and every id of the batch was in the sheet when it started
BatchDeletedRemotely ==
    /\ del.pc \in {"local", "done"}
    /\ del.token # Null /\ TruthyText(del.spreadsheetId)
    /\ ~del.failed
    /\ SeqToSet(del.sessionIds) \subseteq RowIds(del.before)

\* C11: when handleDelete has called deleteSessionFromSheet for every id of a
\* batch whose ids are all in the remote session region (one call at a time, in
\* reverse array order) and every remote request succeeded, the remote rows
\* are the original rows without those of the batch, whatever rows the batch
\* occupies: the remaining ids are exactly the original ids minus the batch.
C11_BatchDeleteIndexSafe ==
    BatchDeletedRemotely =>
        /\ RowIds(remoteRows) = RowIds(del.before) \ SeqToSet(del.sessionIds)
        /\ remoteRows = SelectSeq(del.before,
                                  LAMBDA r : r[1] \notin SeqToSet(del.sessionIds))

\* rows [1,2,3,4] with batch [2,3] leave exactly the rows of 1 and 4
C11_Witness ==
    /\ BatchDeletedRemotely
    /\ del.pc = "done"
    /\ ReadIds(del.before) = <<1, 2, 3, 4>>
    /\ del.sessionIds = <<2, 3>>
    /\ ReadIds(remoteRows) = <<1, 4>>

----------------------------------------------------------------------------
\* Properties of pullAll (checked under SpecPull)

\* the non-empty cells of D2:G2, and the keys they belong to
NonEmptyCells == { i \in 1..Len(CONFIG_KEYS) : remoteConfig[i] # EmptyString }
NonEmptyKeys == { CONFIG_KEYS[i] : i \in NonEmptyCells }

ConfigStep == pull.pc = "config" /\ pull'.pc = "sessions" /\ pull'.configRead
SessionsStep == pull.pc = "sessions" /\ pull'.pc = "done" /\ pull'.sessionsRead

ConfigOverwritePerCell ==
    ConfigStep =>
        /\ \A i \in NonEmptyCells : localStorage'[CONFIG_KEYS[i]] = remoteConfig[i]
        /\ \A k \in LocalKeys \ NonEmptyKeys : localStorage'[k] = localStorage[k]
        /\ pull'.config = Cardinality(NonEmptyCells)

ConfigCountReturned ==
    (pull.pc = "done" /\ pull.configRead) => pull.config = Cardinality(NonEmptyCells)

\* C12: for every subset of the four cells D2:G2 that is non-empty (as the read
\* of pullAll returns them), pullAll stores exactly the cells of the subset
\* under their keys, leaves every other key of localStorage as it was, and
\* returns a config count equal to the size of the subset.
C12_PullConfigPerCell == [](ConfigCountReturned) /\ [][ConfigOverwritePerCell]_vars

\* two of the four cells were non-empty: their keys hold the cells, the two
\* other stores still hold their local documents
C12_Witness ==
    /\ pull.pc = "done" /\ pull.configRead /\ pull.config = 2
    /\ NonEmptyCells = {1, 3}
    /\ localStorage[CONFIG_KEYS[1]] = ConfigDocument(2)
    /\ localStorage[CONFIG_KEYS[3]] = NotJson
    /\ localStorage[CONFIG_KEYS[2]] = ConfigDocument(1)
    /\ localStorage[CONFIG_KEYS[4]] = ConfigDocument(1)

\* the session list of a workouts document (none when there is no document)
SessionsOf(text) ==
    IF TruthyText(text) /\ Parses(text)
    THEN PropOr(PropOr(JSONparse(text), "state", JsonNull), "sessions", Arr(<<>>)).items
    ELSE <<>>

\* the rows of the remote session region whose payload is a JSON text
GoodRows == { i \in 1..Len(remoteRows) : remoteRows[i][2].form = "compact" }

\* list is the payloads of the good rows, parsed, in row order
IsParsedRows(list) ==
    /\ Len(list) = Cardinality(GoodRows)
    /\ \A j \in GoodRows :
         list[Cardinality({ i \in GoodRows : i <= j })] = remoteRows[j][2].value

PullReplacesSessionsAlways ==
    (SessionsStep /\ pull.configRead) =>
        /\ IsParsedRows(SessionsOf(localStorage'[WorkoutsKey]))
        /\ pull'.sessions = Cardinality(GoodRows)

\* C13 as stated: after a pullAll whose reads succeed the local session list
\* is the list parsed from the remote rows, for every remote content (a region
\* with no row that parses included), and the count returned is their number.
C13_PullReplacesSessions == [][PullReplacesSessionsAlways]_vars

PullReplacesSessionsIfAny ==
    (SessionsStep /\ pull.configRead) =>
        /\ pull'.sessions = Cardinality(GoodRows)
        /\ IF GoodRows # {}
           THEN /\ IsParsedRows(SessionsOf(localStorage'[WorkoutsKey]))
                /\ Parses(localStorage'[WorkoutsKey])
           ELSE localStorage'[WorkoutsKey] = localStorage[WorkoutsKey]

\* C13 (amended): after a pullAll whose reads succeed the count returned is the
\* number of remote rows that parse; when at least one row parses, the local
\* session list is exactly the list parsed from those rows, in row order,
\* replacing the previous list; when none parses (zero rows included) the
\* local workouts document is left as it was.
C13_PullReplacesSessionsIfAny == [][PullReplacesSessionsIfAny]_vars

\* two remote rows, the second one parses: the local list is that session alone
C13_Witness ==
    /\ pull.pc = "done" /\ pull.configRead /\ pull.sessionsRead
    /\ Len(remoteRows) = 2 /\ GoodRows = {2}
    /\ pull.sessions = 1
    /\ SessionsOf(localStorage[WorkoutsKey]) = <<remoteRows[2][2].value>>

\* the local sessions survived a pull of a sheet without a row that parses
C13_WitnessKept ==
    /\ pull.pc = "done" /\ pull.configRead /\ pull.sessionsRead
    /\ GoodRows = {} /\ pull.sessions = 0
    /\ Len(SessionsOf(localStorage[WorkoutsKey])) = 1

\* the currentDayNumber the store reads from a workouts document: the stored
\* one, or the store's initial 1 when the document has none
StoredDayNumber(text) ==
    IF text.form = "compact" /\ HasProp(text.value, "state")
       /\ HasProp(PropOr(text.value, "state", JsonNull), "currentDayNumber")
    THEN PropOr(PropOr(text.value, "state", JsonNull), "currentDayNumber", 1)
    ELSE 1

DayNumberKept ==
    StoredDayNumber(localStorage'[WorkoutsKey]) = StoredDayNumber(localStorage[WorkoutsKey])

\* C14: no step of a pull changes the currentDayNumber of the local workouts
\* document, whatever the sheet holds (a device without a readable document
\* counts as holding the store's initial day 1).
C14_PullKeepsDayNumber == [][DayNumberKept]_vars

\* the sessions were replaced by a remote one and the document still says day 2
C14_Witness ==
    /\ pull.pc = "done" /\ pull.sessions = 1
    /\ StoredDayNumber(localStorage[WorkoutsKey]) = 2
    /\ SessionsOf(localStorage[WorkoutsKey])[1].props[1][2] # MaxPullIds + 1

PullWritesOnlyParsed ==
    /\ (pull.pc = "config" /\ pull'.pc = "sessions" /\ ~pull'.configRead) =>
          \A k \in StoreKeys : localStorage'[k] = localStorage[k]
    /\ (pull.pc = "sessions" /\ pull'.pc = "done" /\ ~pull'.sessionsRead) =>
          \A k \in StoreKeys : localStorage'[k] = localStorage[k]
    /\ (pull.pc \in {"config", "sessions"}) =>
          \A k \in StoreKeys :
             localStorage'[k] # localStorage[k] => Parses(localStorage'[k])
    /\ (pull.pc = "sessions" /\ pull'.pc = "done") =>
          \A i \in 1..Len(SessionsOf(localStorage'[WorkoutsKey])) :
             \/ SessionsOf(localStorage'[WorkoutsKey]) = SessionsOf(localStorage[WorkoutsKey])
             \/ \E j \in GoodRows :
                  SessionsOf(localStorage'[WorkoutsKey])[i] = remoteRows[j][2].value

\* C15: a failed read of the config cells (of the session rows) leaves the
\* local collections as they were and pullAll still returns; a remote session
\* row or config cell that is not well-formed JSON is never written to
\* localStorage.
C15_PullWritesOnlyParsed == [][PullWritesOnlyParsed]_vars

----------------------------------------------------------------------------
\* Properties of pushAll (checked under SpecPush)

\* the sessions of the local workouts document, and their ids
LocalList == SessionsOf(localStorage[WorkoutsKey])
LocalIds == { PropOr(LocalList[i], "id", MissingId) : i \in 1..Len(LocalList) }

PushAllResult ==
    (pushing.pc = "done" /\ ~pushing.failed) =>
        /\ pushing.count = Len(LocalList)
        /\ \A i \in 1..Len(LocalList) :
             LET id == PropOr(LocalList[i], "id", MissingId)
             IN /\ Cardinality(RowsOf(remoteRows, id)) = 1
                /\ \A r \in RowsOf(remoteRows, id) :
                     remoteRows[r] = <<id, JSONstringify(LocalList[i])>>
        /\ \A i \in 1..Len(CONFIG_KEYS) :
             remoteConfig[i] = IF localStorage[CONFIG_KEYS[i]] = NoItem
                               THEN EmptyString ELSE localStorage[CONFIG_KEYS[i]]
        /\ \A i \in 1..Len(pushing.before) :
             pushing.before[i][1] \notin LocalIds =>
                 i <= Len(remoteRows) /\ remoteRows[i] = pushing.before[i]

----------------------------------------------------------------------------
\* Properties of the credential (checked under SpecToken)

\* no credential is cached, or the cached one has passed its expiry
NoValidCredential ==
    LET raw == localStorage[TOKEN_STORAGE_KEY]
    IN \/ raw = NoItem
       \/ raw.form = "compact" /\ now > PropOr(raw.value, "expires_at", 0) - ExpiryBuffer

\* getToken() returns null, so isConnected() returns false
GetTokenNull == TokenOf(accessToken, localStorage, now) = Null

NotConnectedReported ==
    (NoValidCredential /\ (handleGsPush \/ handleGsPull)) =>
        /\ gsStatus' = NotConnected
        /\ pull' = pull /\ pushing' = pushing /\ push' = push

\* C16: in every state where no credential is cached or the cached
\* credential has expired (now > expires_at - 60 s), also when it expired after
\* it was loaded into memory, getToken() returns null and isConnected() false;
\* a push or pull handler run in such a state reports 'Not connected' and
\* starts no remote call.
C16_ExpiryHonoured == [](NoValidCredential => GetTokenNull) /\ [][NotConnectedReported]_vars

----------------------------------------------------------------------------
\* Properties of the JSON backup (checked under SpecBackup)

\* a text without its non-semantic whitespace
Canon(text) == IF text.form = "indented" THEN JSONstringify(text.value) ELSE text

RoundTripAll ==
    importDownload =>
        \A k \in StoreKeys : Canon(localStorage'[k]) = Canon(exported[k])

\* C17: for every stored state S of the five collections, importing the
\* backup exported from S yields collections equal to S up to whitespace.
C17_BackupRoundTrip == [][RoundTripAll]_vars

\* the stored text is the incoming value, verbatim
Denotes(text, value) ==
    IF value.type = "string" THEN text = value.text
    ELSE Parses(text) /\ JSONparse(text) = value

\* the recognized keys of a file that parses
Recognized(file) == { k \in StoreKeys : HasProp(JSONparse(file), k) }

ImportFrame ==
    LET file == importStatus'.file
    IN  (Parses(file) /\ handleImportJson(file)) =>
            /\ \A k \in Recognized(file) :
                 Denotes(localStorage'[k], PropOr(JSONparse(file), k, JsonNull))
            /\ \A k \in LocalKeys \ Recognized(file) : localStorage'[k] = localStorage[k]
            /\ importStatus'.restored = Cardinality(Recognized(file))

\* C18: an import overwrites exactly the collections whose key occurs in the
\* incoming object and is one of the five store keys, with the incoming value
\* verbatim; a key that is absent keeps its storage, a key that is not a store
\* key causes no write, and the count reported is the number of store keys
\* in the file.
C18_ImportFrame == [][ImportFrame]_vars

\* a file with two store keys, the token key and an unknown key was imported:
\* two collections hold the document of the file, the token key nothing
C18_Witness ==
    /\ importStatus.restored = 2
    /\ importStatus.file.form = "indented"
    /\ Len(importStatus.file.value.props) = 4
    /\ localStorage[STORE_KEYS[1]] = ConfigDocument(2)
    /\ localStorage[STORE_KEYS[5]] = ConfigDocument(2)
    /\ localStorage[STORE_KEYS[2]] = ConfigDocument(1)
    /\ localStorage[TOKEN_STORAGE_KEY] = NoItem

\* the file is no JSON, no JSON object, or has none of the store keys
Rejected(file) ==
    \/ file.form \notin {"compact", "indented"}
    \/ file.value.type \in {"null", "number", "string"}
    \/ \A k \in StoreKeys : ~HasProp(file.value, k)

RejectedImportIsNoOp ==
    LET file == importStatus'.file
    IN  (file # NoItem /\ Rejected(file) /\ handleImportJson(file)) =>
            /\ localStorage' = localStorage
            /\ importStatus'.text \in {FailedToParse, InvalidFormat, NoValidKeys}
            /\ reloadScheduled' = reloadScheduled

\* C19: an import of a file that is not parseable JSON, not a JSON object, or
\* has no store key changes no stored collection, reports a failure, and
\* schedules no reload.
C19_RejectedImportIsNoOp == [][RejectedImportIsNoOp]_vars

\* an object with only the token key and an unknown key was rejected after a
\* store had written its document
C19_Witness ==
    /\ importStatus.text = NoValidKeys
    /\ importStatus.file.form = "indented"
    /\ Len(importStatus.file.value.props) = 2
    /\ ~reloadScheduled
    /\ localStorage[STORE_KEYS[5]] = ConfigDocument(3)

----------------------------------------------------------------------------
\* Properties of a delete-day batch with failing requests (SpecDeleteFair)

\* the remote part of handleDelete ran for the whole batch
BatchRan ==
    /\ del.pc \in {"local", "done"}
    /\ del.token # Null /\ TruthyText(del.spreadsheetId)

\* every id of the batch whose requests did not fail has no row left, the ids
\* whose request failed and the ids outside the batch keep theirs
BestEffortOutcome ==
    BatchRan =>
        /\ RowIds(remoteRows) =
               RowIds(del.before) \ (SeqToSet(del.sessionIds) \ del.failedIds)
        /\ remoteRows = SelectSeq(del.before,
               LAMBDA r : r[1] \notin SeqToSet(del.sessionIds) \ del.failedIds)

\* the action finished: the sessions of the batch are out of the local store
FinishedLocally ==
    del.pc = "done" =>
        \A i \in 1..Len(sessions) : sessions[i].id \notin SeqToSet(del.sessionIds)

\* a request that fails changes no row and hands over to the next call of the
\* loop, or to the local delete after the last one; no row comes back
FailureStep ==
    /\ RowIds(remoteRows') \subseteq RowIds(remoteRows)
    /\ (del.pc \in {"lookup", "deleting"} /\ del'.failedIds # del.failedIds) =>
           /\ remoteRows' = remoteRows
           /\ del'.ids = Tail(del.ids)
           /\ del'.pc = IF del'.ids = <<>> THEN "local" ELSE "lookup"

\* a batch that started finishes, whatever fails on the way
BatchFinishes ==
    (del.pc \in {"lookup", "deleting", "local"}) ~> (del.pc = "done")

\* C21: when the remote delete of one session of a delete-day batch fails, the
\* remote deletes of the remaining sessions are still attempted (each id whose
\* requests succeed loses its row), rows already deleted stay deleted, and the
\* action still finishes with the local deleteSessions.
C21_BestEffortBatch ==
    /\ [](BestEffortOutcome /\ FinishedLocally)
    /\ [][FailureStep]_vars
    /\ BatchFinishes

\* batch [1,2,3] on rows [1,2,3]: the delete of 2 failed after 3 was deleted,
\* 1 was deleted after it, and the local store lost all three
C21_Witness ==
    /\ del.pc = "done" /\ BatchRan
    /\ ReadIds(del.before) = <<1, 2, 3>>
    /\ del.sessionIds = <<1, 2, 3>>
    /\ del.failedIds = {2}
    /\ ReadIds(remoteRows) = <<2>>
    /\ Len(sessions) = 1

----------------------------------------------------------------------------
\* Properties of the text export (checked under SpecExport)

FormatSetCases ==
    formatted.pc = "done" =>
        LET set == formatted.set
        IN formatted.text =
             IF set.weight = NoValue THEN ToString(set.reps)
             ELSE IF set.multiplier # NoValue /\ set.multiplier > 1
             THEN ToString(set.reps) \o " - " \o ToString(set.multiplier) \o "*"
                                     \o ToString(set.weight)
             ELSE ToString(set.reps) \o " - " \o ToString(set.weight)

\* C22: formatSet returns "<reps>" when weight is absent, "<reps> - <weight>"
\* when weight is present (any value >= 0) and multiplier is absent or not
\* greater than 1, and "<reps> - <multiplier>*<weight>" when weight is present
\* and multiplier > 1.
C22_FormatSet == FormatSetCases

----------------------------------------------------------------------------
\* Properties of the calendar reads (checked under SpecWorkout)

CompletedDatesExact ==
    LET dates == getCompletedDates(sessions)
    IN /\ \A i, j \in 1..Len(dates) : dates[i] = dates[j] => i = j
       /\ SeqToSet(dates) =
              { sessions[i].date : i \in { k \in 1..Len(sessions) : sessions[k].completed } }

\* C23: getCompletedDates() returns exactly the dates that have at least one
\* completed session, each date once: a date with two completed sessions
\* appears a single time, a date without a completed session does not appear.
C23_CompletedDatesOnce == CompletedDatesExact

----------------------------------------------------------------------------
\* Properties of the config cells under row operations (SpecDelete)

\* a step of deleteSessionFromSheet leaves the cells D2:G2 as they were
ConfigKeptByDelete ==
    (del.pc \in {"lookup", "deleting"}) => remoteConfig' = remoteConfig

\* C24: deleteSessionFromSheet(id) (like pushSession) leaves the contents of
\* the four config cells D2:G2 unchanged for every position of the session's
\* row, the first data row (sheet row 2) included.
C24_RowOpsKeepConfig == [][ConfigKeptByDelete]_vars

----------------------------------------------------------------------------
\* Properties of row operations in flight at the same time (SpecConcurrent)

\* two pushSession calls for one id that was in no row when either looked it
\* up, both lookups answered, both calls over
TwoPushesOfNewId(c, d) ==
    /\ c # d
    /\ calls[c].op = "pushSession" /\ calls[d].op = "pushSession"
    /\ calls[c].id = calls[d].id
    /\ calls[c].pc = "done" /\ calls[d].pc = "done"
    /\ ~calls[c].readFailed /\ ~calls[d].readFailed
    /\ ~calls[c].found /\ ~calls[d].found

\* C25: when two pushSession calls for the same session id that is not yet in
\* the remote are in flight at once and their reads and writes interleave in
\* any order, the remote session region ends with at most one row for that id.
C25_NoDuplicateRows ==
    \A c, d \in 1..MaxCalls :
        TwoPushesOfNewId(c, d) => Cardinality(RowsOf(remoteRows, calls[c].id)) <= 1

\* C26: an in-flight pushSession(X) or deleteSessionFromSheet(X) never
\* overwrites or deletes a row whose first cell is an id other than X, also
\* when a deleteSessionFromSheet(Y) completes between its lookup and its write.
C26_OwnRowOnly ==
    \A c \in 1..MaxCalls :
        (/\ calls[c].op # "none" /\ calls[c].pc = "done"
         /\ \A d \in 1..MaxCalls \ {c} :
                calls[d].op \in {"none", "deleteSessionFromSheet"}
                /\ (calls[d].op # "none" => calls[d].id # calls[c].id)) =>
            calls[c].touched \in {MissingId, calls[c].id}

\* the write of a pushSession whose lookup failed, for an id that has one row
FailedLookupWrite(c) ==
    /\ calls[c].op = "pushSession" /\ calls[c].pc = "writing"
    /\ calls'[c].pc = "done"
    /\ calls[c].readFailed
    /\ Cardinality(RowsOf(remoteRows, calls[c].id)) = 1

FailedLookupKeepsOneRow ==
    \A c \in 1..MaxCalls :
        FailedLookupWrite(c) => Cardinality(RowsOf(remoteRows', calls[c].id)) = 1

\* C27: when pushSession's read of the remote id column fails for a session
\* whose id is already in the remote, pushSession appends no second row for
\* that id: after the call the remote has exactly one row with that id.
C27_FailedLookupNoDuplicate == [][FailedLookupKeepsOneRow]_vars

----------------------------------------------------------------------------
\* Properties of pulled data until the reload (checked under SpecReload)

\* a pull has written the workouts document and its reload is pending
PulledAwaitingReload ==
    reloadScheduled /\ pull.pc = "done" /\ pull.sessions > 0

\* until the reload the document the pull wrote stays as it is, and the
\* reload brings exactly the pulled sessions into the store
PulledSurvives ==
    /\ (PulledAwaitingReload /\ reloadScheduled' /\ pull' = pull) =>
           localStorage'[WorkoutsKey] = localStorage[WorkoutsKey]
    /\ (PulledAwaitingReload /\ ~reloadScheduled') =>
           [i \in 1..Len(sessions') |-> SessionJson(sessions'[i])]
               = ParsedSessions(ReadRows(remoteRows))

\* C28: after pullAll has written the workouts document and before the
\* scheduled reload happens, no workout-store mutation (getOrCreateSession,
\* addSet, removeSet, completeSession, setCurrentDay) overwrites the pulled
\* document: the session store after the reload holds exactly the pulled
\* sessions.
C28_PulledSurvivesReload == [][PulledSurvives]_vars

----------------------------------------------------------------------------
\* Properties of deleted sessions under later pulls (checked under SpecStay)

\* the ids of the sessions of the stored workouts document
StoredIds(text) ==
    IF TruthyText(text) /\ Parses(text)
    THEN { PropOr(LocalSessions(text)[i], "id", MissingId) :
             i \in 1..Len(LocalSessions(text)) }
    ELSE {}

\* once the action has finished, its sessions are not in the store
DeletedNotInStore ==
    del.pc = "done" =>
        \A i \in 1..Len(sessions) : sessions[i].id \notin SeqToSet(del.sessionIds)

\* a pull that reads the rows after the action has finished writes none of
\* its sessions
LaterPullKeepsDeleted ==
    (del.pc = "done" /\ pull.pc = "sessions" /\ pull'.pc = "done" /\ pull'.sessionsRead) =>
        StoredIds(localStorage'[WorkoutsKey]) \cap SeqToSet(del.sessionIds) = {}

\* C29: once the delete-day action has finished for a set of session ids, none
\* of them is in the local session list, and none of them is in it after any
\* later successful pullAll, also when a remote row delete failed during the
\* action or no credential was available when it ran.
C29_DeletedStayDeleted == [](DeletedNotInStore) /\ [][LaterPullKeepsDeleted]_vars

----------------------------------------------------------------------------
\* Properties of fallbackStorage (checked under SpecFallback)

\* what getItem returned is what the last setItem for the name was given, or
\* nothing after a removeItem
ReadsLastWrite ==
    fallback.op = "getItem" => fallback.ret = fallback.written[fallback.name]

\* C30: getItem(name) after a completed setItem(name, v) returns v, also when
\* localStorage.setItem raised QuotaExceededError so that v is in IndexedDB
\* while an older value of the name is still in localStorage; after
\* removeItem(name), getItem(name) returns null.
C30_ReadYourWrites == ReadsLastWrite

====
